---- MODULE Spec2Model ----
(***************************************************************************)
(* The task orchestration engine of the on-device browser agent:           *)
(* Executor.executeTask (src/src/background/agents/executor.ts) driving    *)
(* the Inference Service, the Planner, the Navigator and the Page Bridge.  *)
(*                                                                         *)
(* One step of the model is one synchronous stretch of executeTask: the    *)
(* code that runs from the settling of one awaited collaborator call to    *)
(* the next await (or to the settling of executeTask itself, finalizer     *)
(* included).  cancel(), an overlapping executeTask call and a load        *)
(* progress notification can run between two such stretches.               *)
(*                                                                         *)
(* The collaborators are the environment: every awaited call settles with  *)
(* any of the replies its caller distinguishes.  The Navigator is taken to *)
(* return a well-formed action (executeTask reads action.action without a  *)
(* guard); the Planner may return null or a plan without usable steps,     *)
(* which executeTask guards against for createPlan only.  The event stream *)
(* of a run is kept as the counters and last values in `trace`.            *)
(***************************************************************************)
EXTENDS Integers, Sequences, FiniteSets, TLC

\* ------------------------------------------------------------------------
\* Program constants
\* ------------------------------------------------------------------------

MAX_STEPS == 15

MAX_REPLANS == 2

\* the literal of `consecutiveFailures >= 3`
FAILURE_STREAK == 3

DEFAULT_MODEL == "Qwen2.5-1.5B-Instruct-q4f16_1-MLC"

FALLBACK_MODELS == <<"Phi-3.5-mini-instruct-q4f16_1-MLC",
                     "Llama-3.2-1B-Instruct-q4f16_1-MLC">>

\* ------------------------------------------------------------------------
\* Bounds of the model
\* ------------------------------------------------------------------------

\* runs of executeTask that are started one after the other
MaxRuns == 2

\* overlapping executeTask calls that are counted
MaxRejected == 1

\* events emitted to the listeners that are followed one by one
MaxEmits == 3

\* START_TASK messages the background receives
MaxTasks == 2

\* llmEngine.initialize calls that are followed
MaxCalls == 3

\* llmEngine.initialize calls that are followed when they may overlap
MaxOverlapping == 4

\* loop iterations of a run that are followed from the background; every
\* iteration runs the same stretches, and Spec follows all MAX_STEPS of them
MaxLoops == 3

\* ------------------------------------------------------------------------
\* Data
\* ------------------------------------------------------------------------

\* the null of Executor.context
Null == [null |-> TRUE]

\* the value found at plan.plan.steps: undefined, a non-array, or an array
Undefined == [type |-> "undefined", items |-> << >>]

NotArray == [type |-> "string", items |-> << >>]

StepList(s) == [type |-> "array", items |-> s]

StepsValues == {Undefined, NotArray, StepList(<< >>),
                StepList(<<"s1", "s2", "s3">>)}

\* what a Planner call settles with: a throw, null, or an object with a plan
PlannerReplies == {[kind |-> "throws", steps |-> Undefined],
                   [kind |-> "null", steps |-> Undefined]}
                  \cup {[kind |-> "plan", steps |-> s] : s \in StepsValues}

\* no Planner reply is being handled
NoReply == [kind |-> "none", steps |-> Undefined]

FallbackSteps == StepList(<<"Analyze the current page",
                            "Complete the requested task">>)

\* ActionType of shared/types.ts
ActionTypes == {"navigate", "click", "type", "extract", "scroll", "wait",
                "done", "fail"}

\* parameters.result of a `done` action: absent, the empty string, or a text
Absent == "(absent)"

ResultParams == {Absent, "", "Visited example.com"}

\* the parameters of any other action, which the Executor only passes on
OtherParams == "(other)"

\* the literal of `parameters.result || 'Task completed successfully'`
DefaultResult == "Task completed successfully"

\* executeTask has not resolved
NoValue == "(none)"

\* what navigator.getNextAction settles with: a throw or an action (only a
\* `done` action is followed into its parameters.result)
NavigatorReplies ==
    {[kind |-> "throws", type |-> "none", result |-> OtherParams]}
    \cup {[kind |-> "action", type |-> t, result |-> OtherParams] :
            t \in ActionTypes \ {"done"}}
    \cup {[kind |-> "action", type |-> "done", result |-> r] :
            r \in ResultParams}

\* what executeAction settles with: a result (success or not) or a throw
ActionReplies == {"success", "failure", "throws"}

\* what chrome.tabs.query settles with in the page-read fallback
TabReplies == {"restricted", "regular", "throws"}

\* the degraded Page States of the page-read fallback: both have
\* interactiveElements: []
DegradedStates == {"restricted", "unavailable"}

\* what llmEngine.initialize settles with
InitReplies == {"loaded", "ready", "throws"}

\* the functions passed to onEvent
Listeners == {"l1", "l2", "l3"}

\* the START_TASK messages in the order they arrive; message k stands for
\* its call of handleStartTask and for the handleEvent closure of that call
TaskIds == 1..MaxTasks

\* a START_TASK message that has not arrived: where its handleStartTask
\* is (pc), how its executeTask call went (call), the TASK_RESULT and ERROR
\* messages it got through to the popup (result, error), whether its
\* handleEvent got an EXECUTOR_EVENT through after one of those (late), and
\* whether a CANCEL_TASK message was processed while it was under way
\* (cancelled)
NoTask == [pc |-> "none", call |-> "none", result |-> 0, error |-> 0,
           late |-> FALSE, cancelled |-> FALSE]

\* the modelId argument of llmEngine.initialize: left out (or empty), the
\* default model, one of the fallback models, or another model
NoModel == "(undefined)"

RequestedModels == {NoModel, DEFAULT_MODEL, FALLBACK_MODELS[1],
                    FALLBACK_MODELS[2], "gemma-2-2b-it-q4f16_1-MLC"}

\* the llmEngine.initialize calls in the order they are made
CallIds == 1..(IF MaxCalls > MaxOverlapping THEN MaxCalls ELSE MaxOverlapping)

\* the modelId arguments of overlapping calls: left out, or the last fallback
OverlappingModels == {NoModel, FALLBACK_MODELS[Len(FALLBACK_MODELS)]}

\* an initialize call that has not been made: where it is (pc), its modelId
\* argument and targetModel, the models doInitialize has still to try and
\* those it has tried, and how the call ended
NoCall == [pc |-> "none", requested |-> NoModel, target |-> "null",
           toTry |-> << >>, tried |-> << >>, result |-> "none", joined |-> 0]

\* the popup when it opens: its AppState, and for the properties whether
\* the user has cancelled and not submitted since (afterCancel) and the
\* START_TASK messages submitted after a cancel (resubmitted)
InitialPopup == [state |-> "idle", afterCancel |-> FALSE, resubmitted |-> {}]

\* LLMEngineManager.state after construction and after reset()
InitialEngineState == [isLoading |-> FALSE, loadProgress |-> 0,
                       currentModel |-> "null", error |-> FALSE,
                       ready |-> FALSE]

\* the rejection reasons of executeTask, "resolved" when it resolves
Outcomes == {"none", "resolved", "initFailed", "planFailed", "replanFailed",
             "typeError", "navigatorError", "failAction", "cancelled",
             "maxSteps"}

\* ------------------------------------------------------------------------
\* State
\* ------------------------------------------------------------------------

VARIABLES
    isRunning,            \* Executor.isRunning
    shouldCancel,         \* Executor.shouldCancel
    context,              \* Executor.context: Null or [plan, history]
    pc,                   \* the await executeTask is suspended at, or "idle"
    step,                 \* loop variable `step`
    replans,              \* local `replans`
    consecutiveFailures,  \* local `consecutiveFailures`
    domState,             \* local `domState` of the iteration
    action,               \* local `action` of the iteration (its action_type)
    progressSub,          \* the progress callback is subscribed to llmEngine
    engineReady,          \* llmEngine.state.ready
    plannerFresh,         \* Planner not used since its last reset()
    navigatorFresh,       \* Navigator not used since its last reset()
    trace,                \* what the current run has emitted and called
    plannerReply,         \* the Planner reply the last stretch handled
    outcome,              \* how the last executeTask settled
    returned,             \* the string the last executeTask resolved with
    trailFail,            \* failed Action Results at the end of the history
    actsAfterCancel,      \* executeAction calls of the run after a cancel()
    runs,                 \* executeTask calls accepted so far
    nRejected,            \* executeTask calls rejected as already running
    eventListeners,       \* Executor.eventListeners, in insertion order
    received,             \* the events each listener was called with
    subscribed,           \* listeners passed to onEvent and not unsubscribed
    due,                  \* the events emitted while each was subscribed
    nEmitted,             \* emit calls followed so far (events are numbered)
    lastThrowers,         \* the listeners that threw on the last event
    emitThrew,            \* an exception has left emit
    activePort,           \* background: the connected popup port, or "null"
    currentTabId,         \* background: currentTabId, or "null"
    nTasks,               \* START_TASK messages received
    tasks,                \* the handleStartTask call of each of them
    llmState,             \* LLMEngineManager.state
    initializationPromise, \* the call whose doInitialize it is, 0 for null
    nCalls,               \* llmEngine.initialize calls made
    calls,                \* each of these calls
    popup                 \* the popup: the App component's `state`

\* the Executor and its run
runVars == <<isRunning, shouldCancel, context, pc, step, replans,
             consecutiveFailures, domState, action, progressSub, engineReady,
             plannerFresh, navigatorFresh, trace, plannerReply, outcome,
             returned, trailFail, actsAfterCancel, runs, nRejected>>

\* the event multicast followed listener by listener
listenerVars == <<eventListeners, received, subscribed, due, nEmitted,
                  lastThrowers, emitThrew>>

\* the background service worker
backgroundVars == <<activePort, currentTabId, nTasks, tasks>>

\* the LLM engine manager
engineVars == <<llmState, initializationPromise, nCalls, calls>>

\* the popup
popupVars == <<popup>>

vars == <<runVars, listenerVars, backgroundVars, engineVars, popupVars>>

\* ------------------------------------------------------------------------
\* Events and collaborator calls of a run
\* ------------------------------------------------------------------------

\* lastEvent, prevEvent: the types of the last event and of the one before
\* it; anyAction: a STEP_ACTION has been emitted; the payloads of the last
\* PLAN_COMPLETE (planSteps), STEP_START (stepNumber), STEP_ACTION
\* (params.result), STEP_RESULT (success) and TASK_COMPLETE (result)
NoTrace == [lastEvent |-> "none", prevEvent |-> "none", anyAction |-> FALSE,
            nTerminal |-> 0,
            terminal |-> "none", nReplan |-> 0, nStepStart |-> 0,
            stepNumber |-> 0, planSteps |-> Undefined, params |-> OtherParams,
            success |-> TRUE, result |-> NoValue, nReplanCalls |-> 0,
            nActions |-> 0, afterTerminal |-> FALSE]

\* Executor.emit of an event without a payload the model follows
emit(t, type) ==
    [t EXCEPT !.lastEvent = type,
              !.prevEvent = t.lastEvent,
              !.afterTerminal = @ \/ t.nTerminal > 0]

emitStepStart(t, stepNumber) ==
    [emit(t, "STEP_START") EXCEPT !.nStepStart = @ + 1,
                                  !.stepNumber = stepNumber]

emitPlanComplete(t, steps) ==
    [emit(t, "PLAN_COMPLETE") EXCEPT !.planSteps = steps]

emitReplan(t) ==
    [emit(t, "REPLAN") EXCEPT !.nReplan = @ + 1]

emitStepAction(t, params) ==
    [emit(t, "STEP_ACTION") EXCEPT !.params = params, !.anyAction = TRUE]

emitStepResult(t, success) ==
    [emit(t, "STEP_RESULT") EXCEPT !.success = success]

emitTaskComplete(t, result) ==
    [emit(t, "TASK_COMPLETE") EXCEPT !.nTerminal = @ + 1,
                                     !.terminal = "resolved",
                                     !.result = result]

emitTaskFailed(t, reason) ==
    [emit(t, "TASK_FAILED") EXCEPT !.nTerminal = @ + 1,
                                   !.terminal = reason]

\* a call of a collaborator that asks it for work
call(t) ==
    [t EXCEPT !.afterTerminal = @ \/ t.nTerminal > 0]

callReplan(t) ==
    [call(t) EXCEPT !.nReplanCalls = @ + 1]

callExecuteAction(t) ==
    [call(t) EXCEPT !.nActions = @ + 1]

\* the members of a JavaScript Set kept in insertion order
members(set) ==
    {set[i] : i \in 1..Len(set)}

\* Set.prototype.add
setAdd(set, x) ==
    IF x \in members(set) THEN set ELSE Append(set, x)

\* Set.prototype.delete
setDelete(set, x) ==
    SelectSeq(set, LAMBDA y : y # x)

RECURSIVE forEachListenerUncaught(_, _, _, _, _)
\* defect: no try/catch around listener(event), so that a throwing listener
\* ends the forEach and the exception leaves emit
forEachListenerUncaught(set, i, rec, throwers, event) ==
    IF i > Len(set)
    THEN [received |-> rec, threw |-> FALSE]
    ELSE LET called == [rec EXCEPT ![set[i]] = Append(@, event)]
         IN  IF set[i] \in throwers
             THEN [received |-> called, threw |-> TRUE]
             ELSE forEachListenerUncaught(set, i + 1, called, throwers,
                                          event)

RECURSIVE forEachListener(_, _, _, _, _)
\* the forEach of Executor.emit from the i-th listener on: each listener is
\* called with the event inside try/catch, `throwers` are those that throw
forEachListener(set, i, rec, throwers, event) ==
    IF i > Len(set)
    THEN [received |-> rec, threw |-> FALSE]
    ELSE LET called == [rec EXCEPT ![set[i]] = Append(@, event)]
         IN  forEachListener(set, i + 1, called, throwers, event)

\* ------------------------------------------------------------------------
\* Pieces of executeTask shared by its continuations
\* ------------------------------------------------------------------------

\* executeTask stays suspended: at await p with these locals and fields
suspend(p, s, r, cf, ctx, pf, nf, t, dom, act) ==
    /\ pc' = p
    /\ step' = s
    /\ replans' = r
    /\ consecutiveFailures' = cf
    /\ context' = ctx
    /\ plannerFresh' = pf
    /\ navigatorFresh' = nf
    /\ trace' = t
    /\ domState' = dom
    /\ action' = act
    /\ UNCHANGED <<isRunning, outcome>>

\* Executor.reset: planner.reset(), navigator.reset(), context = null
reset ==
    /\ plannerFresh' = TRUE
    /\ navigatorFresh' = TRUE
    /\ context' = Null

\* defect: the cleanup placed after the loop instead of in a finally block,
\* so that only a normal return runs it
finalizerOnReturnOnly(out, t) ==
    /\ isRunning' = (out # "resolved")
    /\ IF out = "resolved"
       THEN reset
       ELSE UNCHANGED <<plannerFresh, navigatorFresh, context>>
    /\ pc' = "idle"
    /\ outcome' = out
    /\ trace' = t
    /\ step' = 0
    /\ replans' = 0
    /\ consecutiveFailures' = 0
    /\ domState' = "none"
    /\ action' = "none"

\* executeTask settles with `out`: the finally block runs (isRunning = false,
\* reset()), the locals of the call are gone
finalizer(out, t) ==
    /\ isRunning' = FALSE
    /\ reset
    /\ pc' = "idle"
    /\ outcome' = out
    /\ trace' = t
    /\ step' = 0
    /\ replans' = 0
    /\ consecutiveFailures' = 0
    /\ domState' = "none"
    /\ action' = "none"

\* defect: the loop bound off by one (step <= MAX_STEPS)
loopTopOffByOne(s, r, cf, ctx, pf, nf, t) ==
    IF s <= MAX_STEPS
    THEN IF shouldCancel
         THEN finalizer("cancelled", t)
         ELSE suspend("getDOMState", s, r, cf, ctx, pf, nf,
                      call(emitStepStart(t, s + 1)), "none", "none")
    ELSE finalizer("maxSteps", emitTaskFailed(t, "maxSteps"))

\* defect: the cancellation flag is never polled
loopTopNoCancelCheck(s, r, cf, ctx, pf, nf, t) ==
    IF s < MAX_STEPS
    THEN suspend("getDOMState", s, r, cf, ctx, pf, nf,
                 call(emitStepStart(t, s + 1)), "none", "none")
    ELSE finalizer("maxSteps", emitTaskFailed(t, "maxSteps"))

\* defect: the cancellation flag is polled once, before the loop, instead of
\* at the top of every iteration
loopTopCancelCheckedOnce(s, r, cf, ctx, pf, nf, t) ==
    IF s < MAX_STEPS
    THEN IF shouldCancel /\ s = 0
         THEN finalizer("cancelled", t)
         ELSE suspend("getDOMState", s, r, cf, ctx, pf, nf,
                      call(emitStepStart(t, s + 1)), "none", "none")
    ELSE finalizer("maxSteps", emitTaskFailed(t, "maxSteps"))

\* defect: the loop is bounded by the wrong constant (step < MAX_REPLANS)
loopTopWrongBound(s, r, cf, ctx, pf, nf, t) ==
    IF s < MAX_REPLANS
    THEN IF shouldCancel
         THEN finalizer("cancelled", t)
         ELSE suspend("getDOMState", s, r, cf, ctx, pf, nf,
                      call(emitStepStart(t, s + 1)), "none", "none")
    ELSE finalizer("maxSteps", emitTaskFailed(t, "maxSteps"))

\* the loop condition and the top of the loop body, up to await getDOMState();
\* after the loop: TASK_FAILED "maximum steps exceeded" and the throw
loopTop(s, r, cf, ctx, pf, nf, t) ==
    IF s < MAX_STEPS
    THEN IF shouldCancel
         THEN finalizer("cancelled", t)
         ELSE suspend("getDOMState", s, r, cf, ctx, pf, nf,
                      call(emitStepStart(t, s + 1)), "none", "none")
    ELSE finalizer("maxSteps", emitTaskFailed(t, "maxSteps"))

\* `continue` and the end of the loop body both run the for statement's step++
nextIteration(s, r, cf, ctx, pf, nf, t) ==
    loopTop(s + 1, r, cf, ctx, pf, nf, t)

\* defect: the steps.length === 0 test is missing
planIsUsableArrayOnly(steps) ==
    steps.type = "array"

\* the validation of the initial plan: !steps || !Array.isArray(steps) ||
\* steps.length === 0 selects the fallback plan
planIsUsable(steps) ==
    /\ steps.type = "array"
    /\ Len(steps.items) > 0

acceptedPlan(steps) ==
    IF planIsUsable(steps) THEN steps ELSE FallbackSteps

\* defect: the budget test off by one (replans <= MAX_REPLANS)
canReplanOffByOne(r) ==
    r <= MAX_REPLANS

\* the guard of the re-plan on a Navigator error and on a `fail` action
canReplan(r) ==
    r < MAX_REPLANS

\* defect: the forced re-plan does not look at the re-plan budget
streakReplanDueUnguarded(cf, r) ==
    cf >= FAILURE_STREAK

\* defect: the budget test of the forced re-plan off by one
streakReplanDueBudgetOffByOne(cf, r) ==
    cf >= FAILURE_STREAK /\ r <= MAX_REPLANS

\* defect: the forced re-plan waits for one failure more
streakReplanDueLate(cf, r) ==
    cf > FAILURE_STREAK /\ r < MAX_REPLANS

\* the guard of the forced re-plan after a failed Action Result
streakReplanDue(cf, r) ==
    cf >= FAILURE_STREAK /\ r < MAX_REPLANS

\* defect: a success does not reset the counter
failuresAfterNoReset(cf, success) ==
    IF success THEN cf ELSE cf + 1

\* consecutiveFailures after an Action Result
failuresAfter(cf, success) ==
    IF success THEN 0 ELSE cf + 1

\* defect: navigator.reset() left out of the re-plan sequence
startReplanNoReset(p, cf, ctx, t, act) ==
    suspend(p, step, replans + 1, cf, ctx, FALSE, navigatorFresh,
            callReplan(emitReplan(t)), domState, act)

\* the re-plan sequence up to await planner.replan(): replans++, REPLAN,
\* navigator.reset(), the call
startReplan(p, cf, ctx, t, act) ==
    suspend(p, step, replans + 1, cf, ctx, FALSE, TRUE,
            callReplan(emitReplan(t)), domState, act)

\* the part of the state executeTask itself never writes after its start
runFrame ==
    UNCHANGED <<shouldCancel, progressSub, engineReady, returned, trailFail,
                actsAfterCancel, runs, nRejected>>

\* a stretch that handles no Planner reply
noPlannerReply ==
    plannerReply' = NoReply

\* ------------------------------------------------------------------------
\* Initial state: the singleton right after construction
\* ------------------------------------------------------------------------

Init ==
    /\ isRunning = FALSE
    /\ shouldCancel = FALSE
    /\ context = Null
    /\ pc = "idle"
    /\ step = 0
    /\ replans = 0
    /\ consecutiveFailures = 0
    /\ domState = "none"
    /\ action = "none"
    /\ progressSub = FALSE
    /\ engineReady = FALSE
    /\ plannerFresh = TRUE
    /\ navigatorFresh = TRUE
    /\ trace = NoTrace
    /\ plannerReply = NoReply
    /\ outcome = "none"
    /\ returned = NoValue
    /\ trailFail = 0
    /\ actsAfterCancel = 0
    /\ runs = 0
    /\ nRejected = 0
    /\ eventListeners = << >>
    /\ received = [l \in Listeners |-> << >>]
    /\ subscribed = {}
    /\ due = [l \in Listeners |-> << >>]
    /\ nEmitted = 0
    /\ lastThrowers = {}
    /\ emitThrew = FALSE
    /\ activePort = "popup"
    /\ currentTabId = "null"
    /\ nTasks = 0
    /\ tasks = [k \in TaskIds |-> NoTask]
    /\ llmState = InitialEngineState
    /\ initializationPromise = 0
    /\ nCalls = 0
    /\ calls = [c \in CallIds |-> NoCall]
    /\ popup = InitialPopup

\* ------------------------------------------------------------------------
\* Operations
\* ------------------------------------------------------------------------

\* defect: executeTask does not clear the cancellation flag
executeTaskKeepsFlag ==
    /\ ~isRunning
    /\ runs < MaxRuns
    /\ isRunning' = TRUE
    /\ progressSub' = TRUE
    /\ pc' = "initialize"
    /\ trace' = call(emit(NoTrace, "INIT_START"))
    /\ plannerReply' = NoReply
    /\ outcome' = "none"
    /\ returned' = NoValue
    /\ step' = 0
    /\ replans' = 0
    /\ consecutiveFailures' = 0
    /\ domState' = "none"
    /\ action' = "none"
    /\ trailFail' = 0
    /\ actsAfterCancel' = 0
    /\ runs' = runs + 1
    /\ UNCHANGED <<shouldCancel, context, engineReady, plannerFresh,
                   navigatorFresh, nRejected>>

\* executeTask called while no run is active: up to await initialize()
executeTask ==
    /\ ~isRunning
    /\ runs < MaxRuns
    /\ isRunning' = TRUE
    /\ shouldCancel' = FALSE
    /\ progressSub' = TRUE
    /\ pc' = "initialize"
    /\ trace' = call(emit(NoTrace, "INIT_START"))
    /\ plannerReply' = NoReply
    /\ outcome' = "none"
    /\ returned' = NoValue
    /\ step' = 0
    /\ replans' = 0
    /\ consecutiveFailures' = 0
    /\ domState' = "none"
    /\ action' = "none"
    /\ trailFail' = 0
    /\ actsAfterCancel' = 0
    /\ runs' = runs + 1
    /\ UNCHANGED <<context, engineReady, plannerFresh, navigatorFresh,
                   nRejected>>

\* defect: the already-running check placed inside the try block, so that
\* the finally block of the rejected call runs
executeTaskWhileRunningInsideTry ==
    /\ isRunning
    /\ nRejected < MaxRejected
    /\ nRejected' = nRejected + 1
    /\ isRunning' = FALSE
    /\ reset
    /\ UNCHANGED <<shouldCancel, pc, step, replans, consecutiveFailures,
                   domState, action, progressSub, engineReady, trace,
                   plannerReply, outcome, returned, trailFail,
                   actsAfterCancel, runs>>

\* executeTask called while a run is active: the throw before the try block
executeTaskWhileRunning ==
    /\ isRunning
    /\ nRejected < MaxRejected
    /\ nRejected' = nRejected + 1
    /\ UNCHANGED <<isRunning, shouldCancel, context, pc, step, replans,
                   consecutiveFailures, domState, action, progressSub,
                   engineReady, plannerFresh, navigatorFresh, trace,
                   plannerReply, outcome, returned, trailFail,
                   actsAfterCancel, runs>>

\* Executor.cancel
cancel ==
    /\ shouldCancel' = TRUE
    /\ UNCHANGED <<isRunning, context, pc, step, replans, consecutiveFailures,
                   domState, action, progressSub, engineReady, plannerFresh,
                   navigatorFresh, trace, plannerReply, outcome, returned,
                   trailFail, actsAfterCancel, runs, nRejected>>

\* a load-progress notification reaches the callback executeTask subscribed
notifyProgress ==
    /\ progressSub
    /\ trace' = emit(trace, "INIT_PROGRESS")
    /\ UNCHANGED <<isRunning, shouldCancel, context, pc, step, replans,
                   consecutiveFailures, domState, action, progressSub,
                   engineReady, plannerFresh, navigatorFresh, plannerReply,
                   outcome, returned, trailFail, actsAfterCancel, runs,
                   nRejected>>

\* defect: PLAN_START emitted before INIT_COMPLETE
initializeResolvedPlanStartFirst ==
    /\ pc = "initialize"
    /\ \E reply \in InitReplies \ {"throws"} :
         /\ reply = "ready" => engineReady
         /\ LET loaded == IF reply = "loaded"
                          THEN emit(trace, "INIT_PROGRESS") ELSE trace
                t == call(emit(emit(loaded, "PLAN_START"), "INIT_COMPLETE"))
            IN  suspend("createPlan", 0, 0, 0,
                        [plan |-> Undefined, history |-> 0],
                        FALSE, navigatorFresh, t, "none", "none")
    /\ progressSub' = FALSE
    /\ engineReady' = TRUE
    /\ noPlannerReply
    /\ UNCHANGED <<shouldCancel, returned, trailFail, actsAfterCancel, runs,
                   nRejected>>

\* defect: the progress callback stays subscribed after a successful
\* initialization
initializeResolvedKeepsSubscription ==
    /\ pc = "initialize"
    /\ \E reply \in InitReplies \ {"throws"} :
         /\ reply = "ready" => engineReady
         /\ LET loaded == IF reply = "loaded"
                          THEN emit(trace, "INIT_PROGRESS") ELSE trace
                t == call(emit(emit(loaded, "INIT_COMPLETE"), "PLAN_START"))
            IN  suspend("createPlan", 0, 0, 0,
                        [plan |-> Undefined, history |-> 0],
                        FALSE, navigatorFresh, t, "none", "none")
    /\ engineReady' = TRUE
    /\ noPlannerReply
    /\ UNCHANGED <<shouldCancel, progressSub, returned, trailFail,
                   actsAfterCancel, runs, nRejected>>

\* llmEngine.initialize resolves: unsubscribe, INIT_COMPLETE, the context,
\* PLAN_START, up to await planner.createPlan().  A fresh load notifies
\* progress 1 before it resolves; an engine already ready resolves at once.
initializeResolved ==
    /\ pc = "initialize"
    /\ \E reply \in InitReplies \ {"throws"} :
         /\ reply = "ready" => engineReady
         /\ LET loaded == IF reply = "loaded"
                          THEN emit(trace, "INIT_PROGRESS") ELSE trace
                t == call(emit(emit(loaded, "INIT_COMPLETE"), "PLAN_START"))
            IN  suspend("createPlan", 0, 0, 0,
                        [plan |-> Undefined, history |-> 0],
                        FALSE, navigatorFresh, t, "none", "none")
    /\ progressSub' = FALSE
    /\ engineReady' = TRUE
    /\ noPlannerReply
    /\ UNCHANGED <<shouldCancel, returned, trailFail, actsAfterCancel, runs,
                   nRejected>>

\* defect: the initialization error is reported but not rethrown, so that
\* the run goes on into planning
initializeRejectedSwallowed ==
    /\ pc = "initialize"
    /\ suspend("createPlan", 0, 0, 0, [plan |-> Undefined, history |-> 0],
               FALSE, navigatorFresh,
               call(emit(emitTaskFailed(trace, "initFailed"), "PLAN_START")),
               "none", "none")
    /\ progressSub' = FALSE
    /\ engineReady' = FALSE
    /\ noPlannerReply
    /\ UNCHANGED <<shouldCancel, returned, trailFail, actsAfterCancel, runs,
                   nRejected>>

\* defect: unsubscribe() and INIT_COMPLETE moved behind the try statement's
\* catch (as if in a finally block), so that a failed load announces
\* INIT_COMPLETE too
initializeRejectedAnnouncesComplete ==
    /\ pc = "initialize"
    /\ finalizer("initFailed",
                 emitTaskFailed(emit(trace, "INIT_COMPLETE"), "initFailed"))
    /\ progressSub' = FALSE
    /\ engineReady' = FALSE
    /\ noPlannerReply
    /\ UNCHANGED <<shouldCancel, returned, trailFail, actsAfterCancel, runs,
                   nRejected>>

\* llmEngine.initialize rejects: unsubscribe, TASK_FAILED, rethrow
initializeRejected ==
    /\ pc = "initialize"
    /\ finalizer("initFailed", emitTaskFailed(trace, "initFailed"))
    /\ progressSub' = FALSE
    /\ engineReady' = FALSE
    /\ noPlannerReply
    /\ UNCHANGED <<shouldCancel, returned, trailFail, actsAfterCancel, runs,
                   nRejected>>

\* planner.createPlan resolves: validation or fallback, PLAN_COMPLETE, and
\* the first pass through the top of the loop
createPlanResolved ==
    /\ pc = "createPlan"
    /\ \E reply \in PlannerReplies :
         /\ reply.kind # "throws"
         /\ plannerReply' = reply
         /\ LET plan == acceptedPlan(reply.steps)
            IN  loopTop(0, 0, 0, [context EXCEPT !.plan = plan],
                        plannerFresh, navigatorFresh,
                        emitPlanComplete(trace, plan))
    /\ runFrame

\* planner.createPlan rejects: TASK_FAILED "Planning failed", rethrow
createPlanRejected ==
    /\ pc = "createPlan"
    /\ finalizer("planFailed", emitTaskFailed(trace, "planFailed"))
    /\ plannerReply' = [kind |-> "throws", steps |-> Undefined]
    /\ runFrame

\* getDOMState resolves: up to await navigator.getNextAction()
getDOMStateResolved ==
    /\ pc = "getDOMState"
    /\ suspend("getNextAction", step, replans, consecutiveFailures, context,
               plannerFresh, FALSE, call(trace), "page", "none")
    /\ noPlannerReply
    /\ runFrame

\* defect: a failed page read ends the iteration (`continue`)
getDOMStateRejectedSkipsIteration ==
    /\ pc = "getDOMState"
    /\ nextIteration(step, replans, consecutiveFailures, context,
                     plannerFresh, navigatorFresh, trace)
    /\ noPlannerReply
    /\ runFrame

\* getDOMState rejects: up to await chrome.tabs.query() of the catch block
getDOMStateRejected ==
    /\ pc = "getDOMState"
    /\ suspend("tabsQuery", step, replans, consecutiveFailures, context,
               plannerFresh, navigatorFresh, trace, "none", "none")
    /\ noPlannerReply
    /\ runFrame

\* defect: chrome.tabs.query of the catch block not guarded, so that its
\* failure leaves the loop
tabsQuerySettledUnguarded ==
    /\ pc = "tabsQuery"
    /\ \E reply \in TabReplies :
         IF reply = "throws"
         THEN finalizer("navigatorError", trace)
         ELSE suspend("getNextAction", step, replans, consecutiveFailures,
                      context, plannerFresh, FALSE, call(trace),
                      IF reply = "regular" THEN "unavailable"
                                           ELSE "restricted",
                      "none")
    /\ noPlannerReply
    /\ runFrame

\* defect: after the fallback lookup the page read is tried again instead
\* of going on with the degraded Page State
tabsQuerySettledRetriesRead ==
    /\ pc = "tabsQuery"
    /\ suspend("getDOMState", step, replans, consecutiveFailures, context,
               plannerFresh, navigatorFresh, trace, "none", "none")
    /\ noPlannerReply
    /\ runFrame

\* chrome.tabs.query settles: the degraded Page State (a failed or empty
\* lookup leaves the url 'unknown', which counts as restricted), then up to
\* await navigator.getNextAction()
tabsQuerySettled ==
    /\ pc = "tabsQuery"
    /\ \E reply \in TabReplies :
         suspend("getNextAction", step, replans, consecutiveFailures, context,
                 plannerFresh, FALSE, call(trace),
                 IF reply = "regular" THEN "unavailable" ELSE "restricted",
                 "none")
    /\ noPlannerReply
    /\ runFrame

\* navigator.getNextAction rejects: a re-plan while the budget lasts,
\* otherwise TASK_FAILED and rethrow
getNextActionRejected ==
    /\ pc = "getNextAction"
    /\ IF canReplan(replans)
       THEN startReplan("replanNavigatorError", consecutiveFailures, context,
                        trace, "none")
       ELSE finalizer("navigatorError",
                      emitTaskFailed(trace, "navigatorError"))
    /\ noPlannerReply
    /\ runFrame

\* defect: the default message is sent with TASK_COMPLETE but the raw
\* parameter is what executeTask returns
doneActionReturnsParameter(t, r) ==
    /\ finalizer("resolved",
                 emitTaskComplete(t, IF r \in {Absent, ""}
                                     THEN DefaultResult ELSE r))
    /\ returned' = r

\* a `done` action: result = parameters.result || default, TASK_COMPLETE
\* with it, return it
doneAction(t, r) ==
    LET result == IF r \in {Absent, ""} THEN DefaultResult ELSE r
    IN  /\ finalizer("resolved", emitTaskComplete(t, result))
        /\ returned' = result

\* defect: a `fail` action is not told from the other actions and goes to
\* executeAction
failActionPerformed(t) ==
    suspend("executeAction", step, replans, consecutiveFailures, context,
            plannerFresh, navigatorFresh, callExecuteAction(t), domState,
            "fail")

\* a `fail` action: a re-plan while the budget lasts, otherwise TASK_FAILED
\* and throw
failAction(t) ==
    IF canReplan(replans)
    THEN startReplan("replanFail", consecutiveFailures, context, t, "fail")
    ELSE finalizer("failAction", emitTaskFailed(t, "failAction"))

\* navigator.getNextAction resolves: STEP_ACTION, the terminal actions, and
\* for any other action up to await executeAction()
getNextActionResolved ==
    /\ pc = "getNextAction"
    /\ \E reply \in NavigatorReplies :
         /\ reply.kind = "action"
         /\ LET t == emitStepAction(trace, reply.result)
            IN  CASE reply.type = "done" ->
                       /\ doneAction(t, reply.result)
                       /\ UNCHANGED actsAfterCancel
                  [] reply.type = "fail" ->
                       /\ failAction(t)
                       /\ UNCHANGED <<returned, actsAfterCancel>>
                  [] OTHER ->
                       /\ UNCHANGED returned
                       /\ suspend("executeAction", step, replans,
                                  consecutiveFailures, context, plannerFresh,
                                  navigatorFresh, callExecuteAction(t),
                                  domState, reply.type)
                       /\ actsAfterCancel' =
                            IF shouldCancel THEN actsAfterCancel + 1
                                            ELSE actsAfterCancel
    /\ noPlannerReply
    /\ UNCHANGED <<shouldCancel, progressSub, engineReady, trailFail,
                   runs, nRejected>>

\* defect: no try/catch around executeAction, so that a throw leaves the
\* loop (a returned failure is still handled)
executeActionSettledThrowPropagates ==
    /\ pc = "executeAction"
    /\ \E reply \in ActionReplies :
         LET success == reply = "success"
             t == emitStepResult(trace, success)
             ctx == [context EXCEPT !.history = @ + 1]
             cf == failuresAfter(consecutiveFailures, success)
         IN  IF reply = "throws"
             THEN /\ finalizer("navigatorError", trace)
                  /\ trailFail' = trailFail + 1
             ELSE /\ trailFail' = IF success THEN 0 ELSE trailFail + 1
                  /\ IF ~success /\ streakReplanDue(cf, replans)
                     THEN startReplan("replanStreak", cf, ctx, t, action)
                     ELSE nextIteration(step, replans, cf, ctx, plannerFresh,
                                        navigatorFresh, t)
    /\ noPlannerReply
    /\ UNCHANGED <<shouldCancel, progressSub, engineReady, returned,
                   actsAfterCancel, runs, nRejected>>

\* executeAction settles (a throw becomes a failed result): STEP_RESULT, the
\* history entry, the failure-streak policy, then the next iteration
executeActionSettled ==
    /\ pc = "executeAction"
    /\ \E reply \in ActionReplies :
         LET success == reply = "success"
             t == emitStepResult(trace, success)
             ctx == [context EXCEPT !.history = @ + 1]
             cf == failuresAfter(consecutiveFailures, success)
         IN  /\ trailFail' = IF success THEN 0 ELSE trailFail + 1
             /\ IF ~success /\ streakReplanDue(cf, replans)
                THEN startReplan("replanStreak", cf, ctx, t, action)
                ELSE nextIteration(step, replans, cf, ctx, plannerFresh,
                                   navigatorFresh, t)
    /\ noPlannerReply
    /\ UNCHANGED <<shouldCancel, progressSub, engineReady, returned,
                   actsAfterCancel, runs, nRejected>>

\* defect: the re-plan replaces the whole Run Context, history included
replanResolvedFreshContext(cf) ==
    \E reply \in PlannerReplies :
       /\ reply.kind # "throws"
       /\ plannerReply' = reply
       /\ IF reply.kind = "null"
          THEN finalizer("typeError", trace)
          ELSE nextIteration(step, replans, cf,
                             [plan |-> reply.steps, history |-> 0],
                             plannerFresh, navigatorFresh,
                             emitPlanComplete(trace, reply.steps))

\* planner.replan resolves: the new plan replaces the old one unvalidated,
\* PLAN_COMPLETE with its steps (reading them off a null reply throws a
\* TypeError that leaves executeTask), then the next iteration with the
\* failure counter set to cf
replanResolved(cf) ==
    \E reply \in PlannerReplies :
       /\ reply.kind # "throws"
       /\ plannerReply' = reply
       /\ IF reply.kind = "null"
          THEN finalizer("typeError", trace)
          ELSE nextIteration(step, replans, cf,
                             [context EXCEPT !.plan = reply.steps],
                             plannerFresh, navigatorFresh,
                             emitPlanComplete(trace, reply.steps))

\* planner.replan rejects: no handler but the finally block
replanRejected ==
    /\ finalizer("replanFailed", trace)
    /\ plannerReply' = [kind |-> "throws", steps |-> Undefined]

\* the re-plan after a Navigator error: `continue`, the counter kept
replanNavigatorErrorResolved ==
    /\ pc = "replanNavigatorError"
    /\ replanResolved(consecutiveFailures)
    /\ runFrame

replanNavigatorErrorRejected ==
    /\ pc = "replanNavigatorError"
    /\ replanRejected
    /\ runFrame

\* the re-plan after a `fail` action: consecutiveFailures = 0, `continue`
replanFailResolved ==
    /\ pc = "replanFail"
    /\ replanResolved(0)
    /\ runFrame

replanFailRejected ==
    /\ pc = "replanFail"
    /\ replanRejected
    /\ runFrame

\* the forced re-plan after a failure streak: consecutiveFailures = 0, end
\* of the loop body
replanStreakResolved ==
    /\ pc = "replanStreak"
    /\ replanResolved(0)
    /\ runFrame

replanStreakRejected ==
    /\ pc = "replanStreak"
    /\ replanRejected
    /\ runFrame

\* ------------------------------------------------------------------------
\* The event multicast
\* ------------------------------------------------------------------------

\* Executor.onEvent(listener)
onEvent(l) ==
    /\ eventListeners' = setAdd(eventListeners, l)
    /\ subscribed' = subscribed \cup {l}
    /\ UNCHANGED <<received, due, nEmitted, lastThrowers, emitThrew>>

\* defect: the returned function empties the Set
unsubscribeClears(l) ==
    /\ l \in subscribed
    /\ eventListeners' = << >>
    /\ subscribed' = subscribed \ {l}
    /\ UNCHANGED <<received, due, nEmitted, lastThrowers, emitThrew>>

\* the function onEvent(listener) returned is called
unsubscribe(l) ==
    /\ l \in subscribed
    /\ eventListeners' = setDelete(eventListeners, l)
    /\ subscribed' = subscribed \ {l}
    /\ UNCHANGED <<received, due, nEmitted, lastThrowers, emitThrew>>

\* Executor.emit(event) with the listeners in `throwers` throwing
emitEvent(throwers) ==
    /\ nEmitted < MaxEmits
    /\ LET event == nEmitted + 1
           sent == forEachListener(eventListeners, 1, received, throwers,
                                   event)
       IN  /\ nEmitted' = event
           /\ received' = sent.received
           /\ emitThrew' = (emitThrew \/ sent.threw)
           /\ due' = [l \in Listeners |->
                        IF l \in subscribed THEN Append(due[l], event)
                                            ELSE due[l]]
           /\ lastThrowers' = throwers \cap members(eventListeners)
    /\ UNCHANGED <<eventListeners, subscribed>>

\* ------------------------------------------------------------------------
\* The background service worker
\* ------------------------------------------------------------------------

\* defect: no catch block, so that a rejected executeTask posts nothing
postOutcomeNoCatch(task, out) ==
    IF activePort = "null" \/ out # "resolved"
    THEN task
    ELSE [task EXCEPT !.result = @ + 1]

\* the end of handleStartTask's try statement: TASK_RESULT after executeTask
\* resolved, ERROR from the catch block after it rejected; postMessage on a
\* disconnected port throws (out of the try block into the catch block, and
\* out of the catch block), so that nothing gets through
postOutcome(task, out) ==
    IF activePort = "null"
    THEN task
    ELSE IF out = "resolved"
         THEN [task EXCEPT !.result = @ + 1]
         ELSE [task EXCEPT !.error = @ + 1]

\* handleEvent of every subscribed handleStartTask call posts an
\* EXECUTOR_EVENT if the stretch emitted (a disconnected port throws, which
\* handleEvent catches)
forwarded(emitted) ==
    [k \in TaskIds |->
       [tasks[k] EXCEPT !.late =
          @ \/ ( /\ emitted
                 /\ k \in members(eventListeners)
                 /\ activePort # "null"
                 /\ tasks[k].result + tasks[k].error > 0 )]]

\* the popup posts START_TASK: handleStartTask up to await
\* chrome.tabs.query()
startTask ==
    /\ activePort # "null"
    /\ nTasks < MaxTasks
    /\ nTasks' = nTasks + 1
    /\ tasks' = [tasks EXCEPT ![nTasks + 1].pc = "tabsQuery"]
    /\ UNCHANGED <<activePort, currentTabId, runVars, listenerVars,
                   engineVars>>

\* handleStartTask finds no active tab: ERROR and return
noActiveTab(k) ==
    /\ tasks[k].pc = "tabsQuery"
    /\ tasks' = [tasks EXCEPT ![k] =
                   [postOutcome(tasks[k], "noTab") EXCEPT !.pc = "returned"]]
    /\ UNCHANGED <<activePort, currentTabId, nTasks, runVars, listenerVars,
                   engineVars>>

\* handleStartTask finds a tab while no run is active: currentTabId,
\* onEvent(handleEvent), and executeTask up to its first await
startRun(k) ==
    /\ tasks[k].pc = "tabsQuery"
    /\ currentTabId' = "tab"
    /\ onEvent(k)
    /\ executeTask
    /\ tasks' = [tasks EXCEPT ![k].pc = "executeTask",
                              ![k].call = "pending"]
    /\ UNCHANGED <<activePort, nTasks, engineVars>>

\* handleStartTask finds a tab while a run is active: currentTabId,
\* onEvent(handleEvent), executeTask rejects at once, ERROR, and the finally
\* block (unsubscribe, currentTabId = null)
startRunRejected(k) ==
    /\ tasks[k].pc = "tabsQuery"
    /\ executeTaskWhileRunning
    /\ tasks' = [tasks EXCEPT ![k] =
                   [postOutcome(tasks[k], "alreadyRunning")
                      EXCEPT !.pc = "returned", !.call = "rejected"]]
    /\ currentTabId' = "null"
    /\ UNCHANGED <<activePort, nTasks, listenerVars, engineVars>>

\* the popup posts CANCEL_TASK: executor.cancel()
cancelTask ==
    /\ activePort # "null"
    /\ cancel
    /\ tasks' = [k \in TaskIds |->
                   IF tasks[k].pc \in {"tabsQuery", "executeTask"}
                   THEN [tasks[k] EXCEPT !.cancelled = TRUE]
                   ELSE tasks[k]]
    /\ UNCHANGED <<activePort, currentTabId, nTasks, listenerVars,
                   engineVars>>

\* the popup goes away: port.onDisconnect
onDisconnect ==
    /\ activePort # "null"
    /\ activePort' = "null"
    /\ UNCHANGED <<currentTabId, nTasks, tasks, runVars, listenerVars,
                   engineVars>>

\* defect: the finally block does not call unsubscribe()
taskSettledStaysSubscribed(k, forwardedTasks) ==
    /\ tasks[k].pc = "executeTask"
    /\ tasks' = [forwardedTasks EXCEPT ![k] =
                   [postOutcome(forwardedTasks[k], outcome')
                      EXCEPT !.pc = "returned",
                             !.call = IF outcome' = "resolved"
                                      THEN "resolved" ELSE "rejected"]]
    /\ UNCHANGED listenerVars
    /\ currentTabId' = "null"

\* handleStartTask after await executor.executeTask(): the outcome message
\* and the finally block
taskSettled(k, forwardedTasks) ==
    /\ tasks[k].pc = "executeTask"
    /\ tasks' = [forwardedTasks EXCEPT ![k] =
                   [postOutcome(forwardedTasks[k], outcome')
                      EXCEPT !.pc = "returned",
                             !.call = IF outcome' = "resolved"
                                      THEN "resolved" ELSE "rejected"]]
    /\ unsubscribe(k)
    /\ currentTabId' = "null"

\* a stretch of executeTask as the background sees it: its events go through
\* the subscribed handleEvent closures, and when it settles executeTask the
\* handleStartTask call that awaits it goes on in the same turn
stretch(A) ==
    /\ A
    /\ step' <= MaxLoops
    /\ IF isRunning /\ ~isRunning'
       THEN \E k \in TaskIds : taskSettled(k, forwarded(trace' # trace))
       ELSE /\ tasks' = forwarded(trace' # trace)
            /\ UNCHANGED <<currentTabId, listenerVars>>
    /\ UNCHANGED <<activePort, nTasks, engineVars>>

\* ------------------------------------------------------------------------
\* The popup
\* ------------------------------------------------------------------------

\* handleExecutorEvent: the AppState after an event of the given type
handleExecutorEvent(state, type) ==
    CASE type = "INIT_START" -> "loading"
      [] type = "PLAN_START" -> "planning"
      [] type = "PLAN_COMPLETE" -> "executing"
      [] type = "REPLAN" -> "planning"
      [] type = "TASK_COMPLETE" -> "complete"
      [] type = "TASK_FAILED" -> "error"
      [] OTHER -> state

\* the events a stretch emitted, from the last two events before and after
\* it: the last two of them when there are more (the INIT_PROGRESS of a
\* fresh load ahead of INIT_COMPLETE and PLAN_START is the one case), the
\* first of two being never of the type of the event before them
emittedBy(before, after) ==
    IF after.lastEvent = before.lastEvent /\ after.prevEvent = before.prevEvent
    THEN << >>
    ELSE IF after.prevEvent = before.lastEvent
         THEN <<after.lastEvent>>
         ELSE <<after.prevEvent, after.lastEvent>>

\* the port's onMessage listener of the popup, for the messages a step of
\* the background posts: the EXECUTOR_EVENT of each event emitted while a
\* handleEvent is subscribed, then the TASK_RESULT or ERROR of a
\* handleStartTask that ends
onMessage ==
    LET events == IF eventListeners # << >> \/ eventListeners' # << >>
                  THEN emittedBy(trace, trace')
                  ELSE << >>
        afterEvents ==
            IF Len(events) = 0 THEN popup.state
            ELSE IF Len(events) = 1
                 THEN handleExecutorEvent(popup.state, events[1])
                 ELSE handleExecutorEvent(
                          handleExecutorEvent(popup.state, events[1]),
                          events[2])
        afterOutcome ==
            IF \E k \in TaskIds : tasks'[k].result > tasks[k].result
            THEN "complete"
            ELSE IF \E k \in TaskIds : tasks'[k].error > tasks[k].error
                 THEN "error"
                 ELSE afterEvents
    IN  popup' = [popup EXCEPT !.state = afterOutcome]

\* handleSubmitTask, from the TaskInput the idle popup shows, with the port
\* connected: the state is reset and START_TASK is posted
handleSubmitTask ==
    /\ popup.state = "idle"
    /\ startTask
    /\ popup' = [state |-> "loading",
                 afterCancel |-> FALSE,
                 resubmitted |-> IF popup.afterCancel
                                 THEN popup.resubmitted \cup {nTasks + 1}
                                 ELSE popup.resubmitted]

\* handleCancel, from the stop button shown while loading, planning or
\* executing: CANCEL_TASK is posted and the popup goes back to idle
handleCancel ==
    /\ popup.state \in {"loading", "planning", "executing"}
    /\ cancelTask
    /\ popup' = [popup EXCEPT !.state = "idle", !.afterCancel = TRUE]

\* handleReset, from the button of the result and error views
handleReset ==
    /\ popup.state \in {"complete", "error"}
    /\ popup' = [popup EXCEPT !.state = "idle"]
    /\ UNCHANGED <<runVars, listenerVars, backgroundVars, engineVars>>

\* ------------------------------------------------------------------------
\* The LLM engine manager
\* ------------------------------------------------------------------------

\* const targetModel = modelId || DEFAULT_MODEL
targetModel(modelId) ==
    IF modelId = NoModel THEN DEFAULT_MODEL ELSE modelId

\* defect: the requested model is not filtered out of the fallback list
modelsToTryUnfiltered(modelId) ==
    <<modelId>> \o FALLBACK_MODELS

\* [modelId, ...FALLBACK_MODELS.filter((m) => m !== modelId)]
modelsToTry(modelId) ==
    <<modelId>> \o SelectSeq(FALLBACK_MODELS, LAMBDA m : m # modelId)

\* defect: the early return of initialize is missing
alreadyInitializedNever(target) ==
    FALSE

\* the test of the early return of initialize
alreadyInitialized(target) ==
    llmState.ready /\ llmState.currentModel = target

\* doInitialize up to the first await of its first attempt, as call c
doInitialize(c, requested, target, state) ==
    /\ llmState' = [state EXCEPT !.isLoading = TRUE, !.error = FALSE,
                                 !.loadProgress = 0, !.ready = FALSE]
    /\ initializationPromise' = c
    /\ calls' = [calls EXCEPT ![c] =
                   [NoCall EXCEPT !.pc = "load", !.requested = requested,
                                  !.target = target,
                                  !.toTry = modelsToTry(target)]]

\* llmEngine.initialize(modelId) is called, as call c: the early return, the
\* wait for an initialization of the same model, reset() before a switch of
\* model (up to its await), or doInitialize
initialize(c, modelId) ==
    /\ c = nCalls + 1
    /\ nCalls' = c
    /\ LET target == targetModel(modelId)
           made == [NoCall EXCEPT !.requested = modelId, !.target = target]
       IN  IF alreadyInitialized(target)
           THEN /\ calls' = [calls EXCEPT ![c] =
                               [made EXCEPT !.pc = "returned",
                                            !.result = "skipped"]]
                /\ UNCHANGED <<llmState, initializationPromise>>
           ELSE IF /\ initializationPromise # 0
                   /\ llmState.currentModel = target
                THEN /\ calls' = [calls EXCEPT ![c] =
                                    [made EXCEPT
                                       !.pc = "join",
                                       !.joined = initializationPromise]]
                     /\ UNCHANGED <<llmState, initializationPromise>>
                ELSE IF llmState.currentModel \notin {"null", target}
                     THEN /\ llmState' = InitialEngineState
                          /\ initializationPromise' = 0
                          /\ calls' = [calls EXCEPT ![c] =
                                         [made EXCEPT !.pc = "reset"]]
                     ELSE doInitialize(c, modelId, target, llmState)

\* await this.reset() of initialize is over: doInitialize
resetAwaited(c) ==
    /\ calls[c].pc = "reset"
    /\ doInitialize(c, calls[c].requested, calls[c].target, llmState)
    /\ UNCHANGED nCalls

\* the attempt to load the first model still to try settles (the offscreen
\* document and the INIT_LLM request): on success the state is set and the
\* call returns; on failure the next model is tried, and the failure of the
\* last model of the list is recorded and thrown. The progress reports
\* (LLM_PROGRESS messages, and notifyProgress(1) on success) go to the
\* subscribers of onProgress: they are notifyProgress of the run, and of
\* loadProgress only the 0 and the 1 that doInitialize writes are kept.
loadSettled(c, success) ==
    /\ calls[c].pc = "load"
    /\ LET model == Head(calls[c].toTry)
           attempted == [calls[c] EXCEPT !.tried = Append(@, model),
                                         !.toTry = Tail(@)]
           list == modelsToTry(calls[c].target)
       IN  IF success
           THEN /\ llmState' = [llmState EXCEPT !.currentModel = model,
                                                !.isLoading = FALSE,
                                                !.loadProgress = 1,
                                                !.ready = TRUE]
                /\ calls' = [calls EXCEPT ![c] =
                               [attempted EXCEPT !.pc = "returned",
                                                 !.result = "loaded"]]
           ELSE IF model = list[Len(list)]
                THEN /\ llmState' = [llmState EXCEPT !.error = TRUE,
                                                     !.isLoading = FALSE]
                     /\ calls' = [calls EXCEPT ![c] =
                                    [attempted EXCEPT !.pc = "returned",
                                                      !.result = "failed"]]
                ELSE /\ calls' = [calls EXCEPT ![c] = attempted]
                     /\ UNCHANGED llmState
    /\ UNCHANGED <<initializationPromise, nCalls>>

\* `return this.initializationPromise` of a call that found an
\* initialization of its model under way: the call settles as the
\* doInitialize it waits for has settled
joinSettled(c) ==
    /\ calls[c].pc = "join"
    /\ calls[calls[c].joined].pc = "returned"
    /\ calls' = [calls EXCEPT ![c] =
                   [@ EXCEPT !.pc = "returned",
                             !.result = calls[calls[c].joined].result]]
    /\ UNCHANGED <<llmState, initializationPromise, nCalls>>

\* no initialize call is under way
noCallInFlight ==
    \A c \in CallIds : calls[c].pc \in {"none", "returned"}

\* ------------------------------------------------------------------------
\* Specifications
\* ------------------------------------------------------------------------

\* executeTask driven directly (no listener is followed)
Next ==
    \/ executeTask /\ UNCHANGED <<listenerVars, backgroundVars, engineVars, popupVars>>
    \/ executeTaskWhileRunning /\ UNCHANGED <<listenerVars, backgroundVars, engineVars, popupVars>>
    \/ cancel /\ UNCHANGED <<listenerVars, backgroundVars, engineVars, popupVars>>
    \/ notifyProgress /\ UNCHANGED <<listenerVars, backgroundVars, engineVars, popupVars>>
    \/ initializeResolved /\ UNCHANGED <<listenerVars, backgroundVars, engineVars, popupVars>>
    \/ initializeRejected /\ UNCHANGED <<listenerVars, backgroundVars, engineVars, popupVars>>
    \/ createPlanResolved /\ UNCHANGED <<listenerVars, backgroundVars, engineVars, popupVars>>
    \/ createPlanRejected /\ UNCHANGED <<listenerVars, backgroundVars, engineVars, popupVars>>
    \/ getDOMStateResolved /\ UNCHANGED <<listenerVars, backgroundVars, engineVars, popupVars>>
    \/ getDOMStateRejected /\ UNCHANGED <<listenerVars, backgroundVars, engineVars, popupVars>>
    \/ tabsQuerySettled /\ UNCHANGED <<listenerVars, backgroundVars, engineVars, popupVars>>
    \/ getNextActionResolved /\ UNCHANGED <<listenerVars, backgroundVars, engineVars, popupVars>>
    \/ getNextActionRejected /\ UNCHANGED <<listenerVars, backgroundVars, engineVars, popupVars>>
    \/ executeActionSettled /\ UNCHANGED <<listenerVars, backgroundVars, engineVars, popupVars>>
    \/ replanNavigatorErrorResolved /\ UNCHANGED <<listenerVars, backgroundVars, engineVars, popupVars>>
    \/ replanNavigatorErrorRejected /\ UNCHANGED <<listenerVars, backgroundVars, engineVars, popupVars>>
    \/ replanFailResolved /\ UNCHANGED <<listenerVars, backgroundVars, engineVars, popupVars>>
    \/ replanFailRejected /\ UNCHANGED <<listenerVars, backgroundVars, engineVars, popupVars>>
    \/ replanStreakResolved /\ UNCHANGED <<listenerVars, backgroundVars, engineVars, popupVars>>
    \/ replanStreakRejected /\ UNCHANGED <<listenerVars, backgroundVars, engineVars, popupVars>>

Spec == Init /\ [][Next]_vars

\* the multicast on its own: listeners come and go between the events of a
\* run (emit is synchronous, so nothing interleaves with its forEach)
ListenerNext ==
    \/ \E l \in Listeners : onEvent(l) /\ UNCHANGED <<runVars, backgroundVars, engineVars, popupVars>>
    \/ \E l \in Listeners : unsubscribe(l) /\ UNCHANGED <<runVars, backgroundVars, engineVars, popupVars>>
    \/ \E throwers \in SUBSET Listeners :
         emitEvent(throwers) /\ UNCHANGED <<runVars, backgroundVars, engineVars, popupVars>>

ListenerSpec == Init /\ [][ListenerNext]_vars

\* the engine as the Executor uses it: executeTask is the one caller of
\* llmEngine.initialize and runs one at a time, so a call is made when the
\* call before it has returned
EngineNext ==
    \/ \E modelId \in RequestedModels :
         /\ noCallInFlight
         /\ nCalls < MaxCalls
         /\ initialize(nCalls + 1, modelId)
         /\ UNCHANGED <<runVars, listenerVars, backgroundVars, popupVars>>
    \/ \E c \in CallIds :
         resetAwaited(c) /\ UNCHANGED <<runVars, listenerVars, backgroundVars, popupVars>>
    \/ \E c \in CallIds, success \in BOOLEAN :
         /\ loadSettled(c, success)
         /\ UNCHANGED <<runVars, listenerVars, backgroundVars, popupVars>>

EngineSpec == Init /\ [][EngineNext]_vars

\* the engine under callers that do not wait for one another: initialize is
\* called while earlier calls are under way
OverlappingEngineNext ==
    \/ \E modelId \in OverlappingModels :
         /\ nCalls < MaxOverlapping
         /\ initialize(nCalls + 1, modelId)
         /\ UNCHANGED <<runVars, listenerVars, backgroundVars, popupVars>>
    \/ \E c \in CallIds :
         resetAwaited(c) /\ UNCHANGED <<runVars, listenerVars, backgroundVars, popupVars>>
    \/ \E c \in CallIds, success \in BOOLEAN :
         /\ loadSettled(c, success)
         /\ UNCHANGED <<runVars, listenerVars, backgroundVars, popupVars>>
    \/ \E c \in CallIds :
         joinSettled(c) /\ UNCHANGED <<runVars, listenerVars, backgroundVars, popupVars>>

OverlappingEngineSpec == Init /\ [][OverlappingEngineNext]_vars

\* every awaited call of a run settles, one way or the other
settles ==
    \/ initializeResolved
    \/ initializeRejected
    \/ createPlanResolved
    \/ createPlanRejected
    \/ getDOMStateResolved
    \/ getDOMStateRejected
    \/ tabsQuerySettled
    \/ getNextActionResolved
    \/ getNextActionRejected
    \/ executeActionSettled
    \/ replanNavigatorErrorResolved
    \/ replanNavigatorErrorRejected
    \/ replanFailResolved
    \/ replanFailRejected
    \/ replanStreakResolved
    \/ replanStreakRejected

\* one run followed to its end, with cancel() and load progress at any
\* moment (an overlapping executeTask call changes nothing of the run, and a
\* later run starts from the same Executor state)
LiveNext ==
    \/ runs = 0 /\ executeTask /\ UNCHANGED <<listenerVars, backgroundVars, engineVars, popupVars>>
    \/ cancel /\ UNCHANGED <<listenerVars, backgroundVars, engineVars, popupVars>>
    \/ notifyProgress /\ UNCHANGED <<listenerVars, backgroundVars, engineVars, popupVars>>
    \/ settles /\ UNCHANGED <<listenerVars, backgroundVars, engineVars, popupVars>>

\* the collaborators are live: a call that executeTask awaits does not stay
\* pending forever
LiveSpec ==
    /\ Init
    /\ [][LiveNext]_vars
    /\ WF_vars(settles /\ UNCHANGED <<listenerVars, backgroundVars, engineVars, popupVars>>)

\* the Executor driven by the background service worker for the popup
BackgroundNext ==
    \/ startTask /\ UNCHANGED popupVars
    \/ \E k \in TaskIds : noActiveTab(k) /\ UNCHANGED popupVars
    \/ \E k \in TaskIds : startRun(k) /\ UNCHANGED popupVars
    \/ \E k \in TaskIds : startRunRejected(k) /\ UNCHANGED popupVars
    \/ cancelTask /\ UNCHANGED popupVars
    \/ onDisconnect /\ UNCHANGED popupVars
    \/ stretch(notifyProgress) /\ UNCHANGED popupVars
    \/ stretch(initializeResolved) /\ UNCHANGED popupVars
    \/ stretch(initializeRejected) /\ UNCHANGED popupVars
    \/ stretch(createPlanResolved) /\ UNCHANGED popupVars
    \/ stretch(createPlanRejected) /\ UNCHANGED popupVars
    \/ stretch(getDOMStateResolved) /\ UNCHANGED popupVars
    \/ stretch(getDOMStateRejected) /\ UNCHANGED popupVars
    \/ stretch(tabsQuerySettled) /\ UNCHANGED popupVars
    \/ stretch(getNextActionResolved) /\ UNCHANGED popupVars
    \/ stretch(getNextActionRejected) /\ UNCHANGED popupVars
    \/ stretch(executeActionSettled) /\ UNCHANGED popupVars
    \/ stretch(replanNavigatorErrorResolved) /\ UNCHANGED popupVars
    \/ stretch(replanNavigatorErrorRejected) /\ UNCHANGED popupVars
    \/ stretch(replanFailResolved) /\ UNCHANGED popupVars
    \/ stretch(replanFailRejected) /\ UNCHANGED popupVars
    \/ stretch(replanStreakResolved) /\ UNCHANGED popupVars
    \/ stretch(replanStreakRejected) /\ UNCHANGED popupVars

BackgroundSpec == Init /\ [][BackgroundNext]_vars

\* the popup, open and connected, and the background behind it: the user
\* submits, cancels and resets where the popup shows the control for it,
\* and every message the background posts reaches the popup
PopupNext ==
    \/ handleSubmitTask
    \/ handleCancel
    \/ handleReset
    \/ \E k \in TaskIds : noActiveTab(k) /\ onMessage
    \/ \E k \in TaskIds : startRun(k) /\ onMessage
    \/ \E k \in TaskIds : startRunRejected(k) /\ onMessage
    \/ stretch(notifyProgress) /\ onMessage
    \/ stretch(initializeResolved) /\ onMessage
    \/ stretch(initializeRejected) /\ onMessage
    \/ stretch(createPlanResolved) /\ onMessage
    \/ stretch(createPlanRejected) /\ onMessage
    \/ stretch(getDOMStateResolved) /\ onMessage
    \/ stretch(getDOMStateRejected) /\ onMessage
    \/ stretch(tabsQuerySettled) /\ onMessage
    \/ stretch(getNextActionResolved) /\ onMessage
    \/ stretch(getNextActionRejected) /\ onMessage
    \/ stretch(executeActionSettled) /\ onMessage
    \/ stretch(replanNavigatorErrorResolved) /\ onMessage
    \/ stretch(replanNavigatorErrorRejected) /\ onMessage
    \/ stretch(replanFailResolved) /\ onMessage
    \/ stretch(replanFailRejected) /\ onMessage
    \/ stretch(replanStreakResolved) /\ onMessage
    \/ stretch(replanStreakRejected) /\ onMessage

PopupSpec == Init /\ [][PopupNext]_vars

\* ------------------------------------------------------------------------
\* Properties
\* ------------------------------------------------------------------------

TypeOK ==
    /\ isRunning \in BOOLEAN
    /\ shouldCancel \in BOOLEAN
    /\ progressSub \in BOOLEAN
    /\ engineReady \in BOOLEAN
    /\ plannerFresh \in BOOLEAN
    /\ navigatorFresh \in BOOLEAN
    /\ pc \in {"idle", "initialize", "createPlan", "getDOMState", "tabsQuery",
               "getNextAction", "executeAction", "replanNavigatorError",
               "replanFail", "replanStreak"}
    /\ isRunning <=> pc # "idle"
    /\ step \in 0..(MAX_STEPS - 1)
    /\ replans \in 0..MAX_REPLANS
    /\ consecutiveFailures \in 0..MAX_STEPS
    /\ domState \in {"none", "page", "restricted", "unavailable"}
    /\ action \in {"none"} \cup ActionTypes
    /\ outcome \in Outcomes
    /\ returned \in {NoValue, DefaultResult} \cup ResultParams
    /\ plannerReply \in PlannerReplies \cup {NoReply}
    /\ trailFail \in 0..MAX_STEPS
    /\ actsAfterCancel \in 0..1
    /\ runs \in 0..MaxRuns
    /\ nRejected \in 0..MaxRejected
    /\ context = Null \/ context.history \in 0..MAX_STEPS

\* executeTask has settled (and no later run has started)
Settled ==
    pc = "idle" /\ outcome # "none"

\* C1: a run emits at most one terminal event (TASK_COMPLETE or TASK_FAILED)
\* and, once it has, emits no further event and asks no collaborator (Planner,
\* Navigator, Page Bridge, Inference Service) for anything more.  (The
\* reset() of Planner and Navigator in the finally block is cleanup, C6.)
C1_OneTerminalEventThenNothing ==
    /\ trace.nTerminal <= 1
    /\ ~trace.afterTerminal

\* a run that went through loop iterations and ended with its terminal event
C1_Witness ==
    /\ Settled
    /\ trace.nTerminal = 1
    /\ trace.nStepStart >= 2
    /\ trace.nActions >= 1

\* C2: every started run emits a terminal event before it settles: it
\* resolves only after TASK_COMPLETE and every rejection is preceded by a
\* TASK_FAILED event that reports that failure.
C2_TerminalEventBeforeSettling ==
    Settled => (trace.nTerminal = 1 /\ trace.terminal = outcome)

\* C3: within a run the number of re-plans (REPLAN events, Planner.replan
\* calls, the `replans` counter) never exceeds MAX_REPLANS, whichever of the
\* three triggers fire and in whichever order.
C3_ReplanBudget ==
    /\ trace.nReplan <= MAX_REPLANS
    /\ trace.nReplanCalls = trace.nReplan
    /\ replans <= MAX_REPLANS
    /\ isRunning /\ pc # "initialize" => replans = trace.nReplan

\* the budget is used up and a failure streak has built up behind it
C3_Witness ==
    /\ isRunning
    /\ trace.nReplan = MAX_REPLANS
    /\ consecutiveFailures >= FAILURE_STREAK

\* C4: a run emits at most MAX_STEPS STEP_START events and every stepNumber
\* is within 1..MAX_STEPS, however many re-plans occur.
C4_StepBudget ==
    /\ trace.nStepStart <= MAX_STEPS
    /\ trace.nStepStart > 0 => trace.stepNumber \in 1..MAX_STEPS
    /\ trace.stepNumber <= trace.nStepStart

\* the step budget is exhausted in a run that also used its re-plans
C4_Witness ==
    /\ Settled
    /\ outcome = "maxSteps"
    /\ trace.nStepStart = MAX_STEPS
    /\ trace.stepNumber = MAX_STEPS
    /\ trace.nReplan = MAX_REPLANS

\* C5: an executeTask call made while a run is active is rejected at once: it
\* emits nothing, calls no collaborator and leaves isRunning, the cancellation
\* flag, the Run Context and the position of the active run as they were.
C5_OverlappingCallChangesNothing ==
    [][nRejected' # nRejected =>
         /\ isRunning /\ isRunning'
         /\ UNCHANGED <<shouldCancel, context, pc, step, replans,
                        consecutiveFailures, domState, action, progressSub,
                        engineReady, plannerFresh, navigatorFresh, trace,
                        outcome, runs>>]_vars

\* a run that was hit by an overlapping call and went on to perform actions
C5_Witness ==
    /\ nRejected = 1
    /\ runs = 1
    /\ isRunning
    /\ pc = "executeAction"
    /\ context.history >= 1

\* C6: once executeTask has settled, by whichever exit path, isRunning is
\* false, the Run Context is null, Planner and Navigator have been reset, and
\* a further executeTask call is accepted as a new run.
C6_CleanAfterSettling ==
    pc = "idle" =>
        /\ ~isRunning
        /\ context = Null
        /\ plannerFresh
        /\ navigatorFresh
        /\ runs < MaxRuns => ENABLED executeTask

\* a second run accepted after the first one settled
C6_Witness ==
    /\ runs = 2
    /\ isRunning
    /\ context # Null
    /\ ~plannerFresh

\* how a run on which cancel() has been called can settle from await p of
\* iteration s: by the failure or the `done` of the call in flight, by the
\* exhausted step budget, or else by the cancellation at the top of the loop
OutcomesUnderCancel(p, s) ==
    LET atLoopTop == IF s + 1 < MAX_STEPS THEN {"cancelled"} ELSE {"maxSteps"}
    IN  CASE p = "initialize" -> {"initFailed"}
          [] p = "createPlan" -> {"planFailed", "cancelled"}
          [] p = "getNextAction" ->
               {"resolved", "navigatorError", "failAction"}
          [] p = "executeAction" -> atLoopTop
          [] p \in {"replanNavigatorError", "replanFail", "replanStreak"} ->
               {"replanFailed", "typeError"} \cup atLoopTop
          [] OTHER -> {}

\* C7 as claimed: a run on which cancel() was called while it was active
\* settles by rejecting with the cancellation reason, never otherwise.
C7_CancelAlwaysCancels ==
    [][(isRunning /\ shouldCancel /\ ~isRunning') =>
          outcome' = "cancelled"]_vars

\* C7 as amended: once cancel() has been called on an active run, the run
\* starts no further loop iteration (no STEP_START, no page read), and it
\* rejects with the cancellation reason as soon as control reaches the top of
\* the loop; before that only the call in flight can end it (its failure, a
\* `done`, or the exhausted step budget).
C7_CancelTakesEffectAtLoopTop ==
    [][(isRunning /\ shouldCancel) =>
          /\ trace'.nStepStart = trace.nStepStart
          /\ pc' = "getDOMState" => pc = "getDOMState"
          /\ ~isRunning' => outcome' \in OutcomesUnderCancel(pc, step)]_vars

\* a run cancelled in the middle of the loop
C7_Witness ==
    /\ Settled
    /\ outcome = "cancelled"
    /\ shouldCancel
    /\ trace.nStepStart >= 2
    /\ trace.nActions >= 1

\* C8 as claimed: after cancel() has been called during a run, executeAction
\* is not invoked again in that run.
C8_NoActionAfterCancel ==
    actsAfterCancel = 0

\* C8 as amended: after cancel() has been called during a run, executeAction
\* is invoked at most once more, for the iteration that was under way at the
\* cancel, and the run then only finishes that iteration.
C8_OnlyTheIterationInFlightActs ==
    /\ actsAfterCancel <= 1
    /\ actsAfterCancel = 1 /\ isRunning =>
         /\ shouldCancel
         /\ pc \in {"executeAction", "replanStreak"}

\* a cancelled run that performed one action after the cancel() call
C8_Witness ==
    /\ Settled
    /\ outcome = "cancelled"
    /\ actsAfterCancel = 1

\* C9: a successful Action Result sets the consecutive-failure counter to 0;
\* the failure that brings it to three forces exactly one re-plan when budget
\* remains, and does so only with at least three failed results at the end
\* of the history; after the forced re-plan the counter is 0.
C9_FailureStreakPolicy ==
    [][/\ pc = "executeAction" /\ pc' # "executeAction" =>
            /\ trailFail' = 0 => consecutiveFailures' = 0
            /\ pc' = "replanStreak" =>
                 /\ trailFail' >= FAILURE_STREAK
                 /\ consecutiveFailures' = FAILURE_STREAK
                 /\ replans < MAX_REPLANS
                 /\ replans' = replans + 1
                 /\ trace'.nReplan = trace.nReplan + 1
            /\ ( /\ trailFail' > 0
                 /\ consecutiveFailures + 1 >= FAILURE_STREAK
                 /\ replans < MAX_REPLANS ) => pc' = "replanStreak"
       /\ pc = "replanStreak" /\ pc' # "replanStreak" /\ isRunning' =>
            /\ consecutiveFailures' = 0
            /\ replans' = replans
            /\ trace'.nReplan = trace.nReplan
       /\ isRunning' => consecutiveFailures' <= trailFail']_vars

\* the third failure in a row has just forced the first re-plan
C9_Witness ==
    /\ pc = "replanStreak"
    /\ trailFail = FAILURE_STREAK
    /\ consecutiveFailures = FAILURE_STREAK
    /\ trace.nReplan = 1
    /\ replans = 1

\* C10: when createPlan returns a plan whose steps are missing, not an array
\* or empty, the Executor puts the two-step fallback plan in its place, emits
\* PLAN_COMPLETE with these two steps and enters the loop (its first
\* statement being the cancellation check) without a TASK_FAILED.
C10_FallbackPlanSubstituted ==
    [][( /\ pc = "createPlan"
         /\ plannerReply'.kind \in {"null", "plan"}
         /\ plannerReply'.steps \in {Undefined, NotArray, StepList(<< >>)} )
       => /\ trace'.planSteps = FallbackSteps
          /\ Len(trace'.planSteps.items) = 2
          /\ trace'.nTerminal = 0
          /\ IF shouldCancel
             THEN outcome' = "cancelled"
             ELSE /\ isRunning'
                  /\ pc' = "getDOMState"
                  /\ context'.plan = FallbackSteps
                  /\ trace'.nStepStart = 1
                  /\ trace'.lastEvent = "STEP_START"]_vars

\* the loop entered on the fallback plan after an empty step list
C10_Witness ==
    /\ pc = "getDOMState"
    /\ step = 0
    /\ plannerReply = [kind |-> "plan", steps |-> StepList(<< >>)]
    /\ context.plan = FallbackSteps
    /\ trace.planSteps = FallbackSteps

\* C11 as claimed: whenever a plan has been accepted into the Run Context
\* (after createPlan and after every planner.replan), its step list is a
\* non-empty array, and so is the step list of every PLAN_COMPLETE event.
C11_AcceptedPlanNonEmpty ==
    isRunning /\ pc \notin {"initialize", "createPlan"} =>
        /\ context.plan.type = "array"
        /\ Len(context.plan.items) > 0
        /\ trace.planSteps.type = "array"
        /\ Len(trace.planSteps.items) > 0

\* C12: when the Navigator returns a `done` action, executeTask resolves
\* with parameters.result, or with the default message when that is absent
\* or empty; TASK_COMPLETE carries the same string and is the last event of
\* the run; executeAction is not called for the `done` action.
C12_DoneResolvesWithResult ==
    [][( /\ pc = "getNextAction"
         /\ pc' # pc
         /\ trace'.params \in ResultParams )
       => /\ ~isRunning'
          /\ outcome' = "resolved"
          /\ returned' = IF trace'.params \in {Absent, ""}
                         THEN DefaultResult ELSE trace'.params
          /\ trace'.result = returned'
          /\ trace'.lastEvent = "TASK_COMPLETE"
          /\ trace'.nTerminal = 1
          /\ trace'.nActions = trace.nActions]_vars

\* `navigate` performed, then `done` with a result text
C12_Witness ==
    /\ Settled
    /\ outcome = "resolved"
    /\ trace.nActions = 1
    /\ trace.nStepStart = 2
    /\ trace.params = "Visited example.com"
    /\ returned = "Visited example.com"
    /\ trace.lastEvent = "TASK_COMPLETE"

\* C13 as claimed: when llmEngine.initialize fails (for every candidate
\* model), the events of the run are exactly INIT_START and then TASK_FAILED.
C13_InitFailureOnlyTwoEvents ==
    (Settled /\ outcome = "initFailed") =>
        /\ trace.prevEvent = "INIT_START"
        /\ trace.lastEvent = "TASK_FAILED"

\* C13 as amended: when llmEngine.initialize fails, executeTask rejects with
\* the initialization error and the events of the run are INIT_START, then
\* any number of INIT_PROGRESS (load progress notified while the candidates
\* were tried), then TASK_FAILED for that error: no INIT_COMPLETE, no
\* PLAN_START, no other event, nothing after TASK_FAILED.
C13_InitFailureEvents ==
    /\ pc = "initialize" =>
          /\ trace.lastEvent \in {"INIT_START", "INIT_PROGRESS"}
          /\ trace.prevEvent \in {"none", "INIT_START", "INIT_PROGRESS"}
          /\ trace.prevEvent = "none" <=> trace.lastEvent = "INIT_START"
          /\ trace.nTerminal = 0
    /\ (Settled /\ outcome = "initFailed") =>
          /\ trace.prevEvent \in {"INIT_START", "INIT_PROGRESS"}
          /\ trace.lastEvent = "TASK_FAILED"
          /\ trace.nTerminal = 1
          /\ trace.terminal = "initFailed"
          /\ ~trace.afterTerminal

\* a failed initialization during which load progress was notified
C13_Witness ==
    /\ Settled
    /\ outcome = "initFailed"
    /\ trace.prevEvent = "INIT_PROGRESS"
    /\ trace.lastEvent = "TASK_FAILED"
    /\ ~engineReady

\* C14: a run in which the Navigator threw on every call, every
\* planner.replan resolved with a plan and no cancel() intervened has emitted
\* exactly MAX_REPLANS (2) REPLAN events, never a third, ends with
\* TASK_FAILED and rejects with the Navigator's error.
C14_NavigatorAlwaysErrors ==
    /\ (~trace.anyAction /\ isRunning) =>
          /\ trace.nReplan <= MAX_REPLANS
          /\ trace.nStepStart <= trace.nReplan + 1
    /\ ( /\ Settled
         /\ trace.nStepStart > 0
         /\ ~trace.anyAction
         /\ outcome \notin {"cancelled", "replanFailed", "typeError"} ) =>
          /\ outcome = "navigatorError"
          /\ trace.nReplan = 2
          /\ trace.nReplanCalls = 2
          /\ trace.nStepStart = 3
          /\ trace.prevEvent = "STEP_START"
          /\ trace.lastEvent = "TASK_FAILED"
          /\ trace.nTerminal = 1
          /\ trace.terminal = "navigatorError"

\* the Navigator threw three times, the Planner re-planned twice
C14_Witness ==
    /\ Settled
    /\ outcome = "navigatorError"
    /\ ~trace.anyAction
    /\ trace.nReplan = 2
    /\ ~shouldCancel

\* C17: during a run the history only grows: by exactly one entry in the
\* stretch that handles an Action Result (the one that emits its
\* STEP_RESULT), by none anywhere else, the three re-plans included; it
\* holds one entry per action performed; it starts empty and is dropped
\* (with the Run Context) only when the run ends.
C17_HistoryAppendOnly ==
    [][/\ (context # Null /\ context' # Null) =>
            /\ isRunning /\ isRunning'
            /\ context'.history =
                  IF pc = "executeAction" /\ pc' # pc
                  THEN context.history + 1 ELSE context.history
            /\ context'.history > context.history =>
                  "STEP_RESULT" \in {trace'.prevEvent, trace'.lastEvent}
            /\ context'.history =
                  trace'.nActions - (IF pc' = "executeAction" THEN 1 ELSE 0)
       /\ (context = Null /\ context' # Null) =>
            /\ pc = "initialize"
            /\ context'.history = 0
       /\ (context # Null /\ context' = Null) => ~isRunning']_vars

\* both re-plans done and the four entries made before them still there
C17_Witness ==
    /\ isRunning
    /\ pc = "getDOMState"
    /\ trace.nReplan = MAX_REPLANS
    /\ trace.nActions = 4
    /\ context.history = 4

\* C18: a failure of getDOMState, and of the chrome.tabs.query that follows
\* it, never ends the run and emits no TASK_FAILED: the iteration goes on
\* with a degraded Page State (no interactive elements) and the Navigator is
\* asked in the same iteration.
C18_PageReadFailureRecovered ==
    [][/\ (pc = "getDOMState" /\ pc' # pc) =>
            /\ isRunning'
            /\ pc' \in {"getNextAction", "tabsQuery"}
            /\ pc' = "getNextAction" => domState' = "page"
            /\ step' = step
            /\ trace'.nTerminal = 0
            /\ trace'.lastEvent = "STEP_START"
       /\ (pc = "tabsQuery" /\ pc' # pc) =>
            /\ isRunning'
            /\ pc' = "getNextAction"
            /\ domState' \in DegradedStates
            /\ step' = step
            /\ trace'.nTerminal = 0
            /\ trace'.lastEvent = "STEP_START"]_vars

\* the Navigator is being asked about a degraded Page State
C18_Witness ==
    /\ pc = "getNextAction"
    /\ domState = "restricted"
    /\ step = 1
    /\ context.history = 1

\* C19: an error thrown or returned by executeAction does not end the run:
\* STEP_RESULT is emitted with success = false, the history gets its entry
\* and the consecutive-failure counter goes up by one; the run then goes to
\* the next iteration as after a success (where the cancellation check or
\* the step budget may end it), unless the counter has reached the streak
\* and forces a re-plan.
C19_ActionErrorBecomesFailedResult ==
    [][(pc = "executeAction" /\ pc' # pc) =>
         /\ isRunning' \/ outcome' \in {"cancelled", "maxSteps"}
         /\ (~isRunning' /\ outcome' = "cancelled") => shouldCancel
         /\ (~isRunning' /\ outcome' = "maxSteps") => step = MAX_STEPS - 1
         /\ isRunning' =>
              /\ pc' \in {"getDOMState", "replanStreak"}
              /\ context'.history = context.history + 1
         /\ "STEP_RESULT" \in {trace'.prevEvent, trace'.lastEvent}
         /\ trailFail' > 0 =>
              /\ ~trace'.success
              /\ isRunning' =>
                   /\ consecutiveFailures' = consecutiveFailures + 1
                   /\ pc' = "replanStreak" =>
                        consecutiveFailures' >= FAILURE_STREAK
         /\ trailFail' = 0 =>
              /\ trace'.success
              /\ pc' # "replanStreak"]_vars

\* two failed actions in a row and the run in its third iteration
C19_Witness ==
    /\ pc = "getDOMState"
    /\ step = 2
    /\ ~trace.success
    /\ consecutiveFailures = 2
    /\ context.history = 2
    /\ trace.nReplan = 0

\* the events of a sequence are in emission order
inEmissionOrder(events) ==
    \A i, j \in 1..Len(events) : i < j => events[i] < events[j]

\* the listeners called after the listener at position i of the Set
calledAfter(i) ==
    {eventListeners[j] : j \in (i + 1)..Len(eventListeners)}

\* C15: a listener that throws while it handles an event keeps no other
\* subscribed listener from being called with that event, and the exception
\* does not leave emit (so the run that called emit goes on as if no listener
\* had thrown).
C15_ThrowingListenerIsolated ==
    [][nEmitted' # nEmitted =>
         /\ \A l \in Listeners :
              received'[l] = IF l \in subscribed
                             THEN Append(received[l], nEmitted')
                             ELSE received[l]
         /\ ~emitThrew'
         /\ UNCHANGED <<eventListeners, runVars>>]_vars

\* the first listener of the Set threw on the third event and the two
\* listeners behind it were called with that event all the same
C15_Witness ==
    /\ Len(eventListeners) = 3
    /\ nEmitted = 3
    /\ eventListeners[1] \in lastThrowers
    /\ \A l \in calledAfter(1) : received[l] = <<1, 2, 3>>

\* C16: a listener is called with every event emitted while it is
\* subscribed, in emission order, and with no event emitted after its
\* unsubscribe function was called (or before onEvent), whichever other
\* listeners are subscribed.
C16_DeliveryWhileSubscribed ==
    /\ members(eventListeners) = subscribed
    /\ \A l \in Listeners :
         /\ received[l] = due[l]
         /\ inEmissionOrder(received[l])

\* l1 was unsubscribed after the first event and has missed the next two,
\* which l2, still subscribed, has got
C16_Witness ==
    /\ nEmitted = 3
    /\ subscribed = {"l2"}
    /\ received["l1"] = <<1>>
    /\ received["l2"] = <<1, 2, 3>>
    /\ received["l3"] = <<2>>

C21_RunTerminates ==
    isRunning ~> (~isRunning /\ pc = "idle" /\ outcome # "none")

\* a run that took both re-plans, failed its last action and came to its end
\* by using up the step budget
C21_Witness ==
    /\ Settled
    /\ ~isRunning
    /\ outcome = "maxSteps"
    /\ trace.nReplan = MAX_REPLANS
    /\ ~trace.success
    /\ trace.nActions >= 5

\* the awaits of the three re-plans
replanPcs ==
    {"replanNavigatorError", "replanFail", "replanStreak"}

\* C23 as claimed: the iteration in which the Navigator threw and the plan
\* was replaced is not counted: the STEP_START after the re-plan carries the
\* same step number and the loop variable is where it was.
C23_ReplanIterationNotCounted ==
    [][(pc = "replanNavigatorError" /\ pc' # pc /\ isRunning') =>
         /\ step' = step
         /\ trace'.lastEvent = "STEP_START"
         /\ trace'.stepNumber = trace.stepNumber]_vars

\* C24 as claimed: a `fail` action is handled as a Navigator error is: from
\* the same state (re-plan count, failure counter, step, history) the `fail`
\* path consumes a re-plan or aborts as the Navigator-error path does, and
\* every step its re-plan continuation takes is a step the Navigator-error
\* continuation takes from that state.
C24_FailHandledAsNavigatorError ==
    [][/\ (pc = "getNextAction" /\ pc' = "replanFail") =>
            /\ canReplan(replans)
            /\ replans' = replans + 1
            /\ consecutiveFailures' = consecutiveFailures
            /\ step' = step
            /\ context' = context
            /\ trace'.lastEvent = "REPLAN"
       /\ (pc = "getNextAction" /\ outcome' = "failAction") =>
            /\ ~canReplan(replans)
            /\ trace'.lastEvent = "TASK_FAILED"
       /\ (pc = "replanFail" /\ pc' # pc) =>
            /\ replanResolved(consecutiveFailures) \/ replanRejected
            /\ runFrame]_vars

\* C25: every re-plan, whichever trigger, goes: REPLAN, navigator.reset(),
\* planner.replan called with the Run Context as it is (old plan, history
\* kept), the plan replaced by what it returns, PLAN_COMPLETE with the new
\* step list; and the iteration that follows a PLAN_COMPLETE reaches the
\* Navigator with the Navigator reset since the plan before.
C25_ReplanSequence ==
    [][/\ (pc \notin replanPcs /\ pc' \in replanPcs) =>
            /\ trace'.lastEvent = "REPLAN"
            /\ trace'.nReplan = trace.nReplan + 1
            /\ trace'.nReplanCalls = trace.nReplanCalls + 1
            /\ navigatorFresh'
            /\ context'.plan = context.plan
            /\ context'.history =
                  context.history + (IF pc = "executeAction" THEN 1 ELSE 0)
            /\ trace'.planSteps = trace.planSteps
       /\ (pc \in replanPcs /\ pc' = pc) =>
            /\ navigatorFresh'
            /\ context' = context
            /\ trace' = trace
       /\ (pc \in replanPcs /\ pc' # pc /\ plannerReply'.kind = "plan") =>
            /\ trace'.planSteps = plannerReply'.steps
            /\ trace'.nReplan = trace.nReplan
            /\ trace'.nReplanCalls = trace.nReplanCalls
            /\ "PLAN_COMPLETE" \in {trace'.prevEvent, trace'.lastEvent}
            /\ isRunning' =>
                 /\ context'.plan = plannerReply'.steps
                 /\ context'.history = context.history
                 /\ navigatorFresh'
       /\ ( /\ pc' \in {"getDOMState", "tabsQuery"}
            /\ trace'.prevEvent = "PLAN_COMPLETE" ) => navigatorFresh'
       /\ pc' = "getNextAction" => ~navigatorFresh']_vars

\* the Navigator, reset by the second re-plan, is about to be asked against
\* the new plan with the history of four actions kept
C25_Witness ==
    /\ pc = "getDOMState"
    /\ trace.prevEvent = "PLAN_COMPLETE"
    /\ trace.lastEvent = "STEP_START"
    /\ trace.nReplan = MAX_REPLANS
    /\ plannerReply.kind = "plan"
    /\ context.plan = plannerReply.steps
    /\ navigatorFresh
    /\ context.history = 4

\* C26: with the re-plan budget used up, a failed Action Result, however
\* long the streak, forces no re-plan and does not end the run: the counter
\* goes on counting and the loop goes to its next iteration, which only the
\* cancellation check or the step budget can end.
C26_NoForcedReplanWithoutBudget ==
    [][(pc = "executeAction" /\ pc' # pc /\ replans = MAX_REPLANS) =>
         /\ pc' # "replanStreak"
         /\ trace'.nReplan = trace.nReplan
         /\ trace'.nReplanCalls = trace.nReplanCalls
         /\ isRunning' =>
              /\ pc' = "getDOMState"
              /\ step' = step + 1
              /\ replans' = replans
              /\ trailFail' > 0 =>
                   consecutiveFailures' = consecutiveFailures + 1
         /\ ~isRunning' =>
              /\ outcome' \in {"cancelled", "maxSteps"}
              /\ outcome' = "cancelled" => shouldCancel
              /\ outcome' = "maxSteps" => step = MAX_STEPS - 1]_vars

\* five failures in a row behind the exhausted budget, and the loop goes on
C26_Witness ==
    /\ pc = "getDOMState"
    /\ replans = MAX_REPLANS
    /\ trace.nReplan = MAX_REPLANS
    /\ consecutiveFailures = 5
    /\ trace.lastEvent = "STEP_START"

\* event b may come right after event a in the phase order (a = "none": b
\* is the first event of the run); the terminal events close any phase
follows(a, b) ==
    CASE b = "INIT_START" -> a = "none"
      [] b = "INIT_PROGRESS" -> a \in {"INIT_START", "INIT_PROGRESS"}
      [] b = "INIT_COMPLETE" -> a \in {"INIT_START", "INIT_PROGRESS"}
      [] b = "PLAN_START" -> a = "INIT_COMPLETE"
      [] b = "PLAN_COMPLETE" -> a \in {"PLAN_START", "REPLAN"}
      [] b = "STEP_START" -> a \in {"PLAN_COMPLETE", "STEP_RESULT"}
      [] b = "STEP_ACTION" -> a = "STEP_START"
      [] b = "STEP_RESULT" -> a = "STEP_ACTION"
      [] b = "REPLAN" -> a \in {"STEP_START", "STEP_ACTION", "STEP_RESULT"}
      [] b \in {"TASK_COMPLETE", "TASK_FAILED"} ->
           a \notin {"none", "TASK_COMPLETE", "TASK_FAILED"}
      [] OTHER -> FALSE

EventTypes ==
    {"INIT_START", "INIT_PROGRESS", "INIT_COMPLETE", "PLAN_START",
     "PLAN_COMPLETE", "STEP_START", "STEP_ACTION", "STEP_RESULT", "REPLAN",
     "TASK_COMPLETE", "TASK_FAILED"}

\* C27: the events of a run keep the phase order: INIT_START first,
\* PLAN_START right after INIT_COMPLETE, a PLAN_COMPLETE only after
\* PLAN_START or REPLAN, STEP_START only after PLAN_COMPLETE or STEP_RESULT,
\* STEP_ACTION only after the STEP_START of its iteration, STEP_RESULT only
\* after its STEP_ACTION, REPLAN only after an event of an iteration.  Every
\* stretch emits at most three events; the last two are in the trace, and
\* the ones before them link up with the last event of the stretch before.
C27_PhaseOrder ==
    [][trace' # trace =>
         /\ trace'.lastEvent \in EventTypes
         /\ follows(trace'.prevEvent, trace'.lastEvent)
         /\ \/ trace'.prevEvent = trace.lastEvent
            \/ trace'.prevEvent = "none"
            \/ follows(trace.lastEvent, trace'.prevEvent)
            \/ \E e \in EventTypes : /\ follows(trace.lastEvent, e)
                                      /\ follows(e, trace'.prevEvent)
         /\ trace'.prevEvent = "none" => trace'.lastEvent = "INIT_START"
         /\ pc' = "initialize" =>
              trace'.lastEvent \in {"INIT_START", "INIT_PROGRESS"}
         /\ pc' = "createPlan" => trace'.lastEvent = "PLAN_START"
         /\ pc' \in {"getDOMState", "tabsQuery", "getNextAction"} =>
              trace'.lastEvent = "STEP_START"
         /\ pc' = "executeAction" => trace'.lastEvent = "STEP_ACTION"
         /\ pc' \in replanPcs => trace'.lastEvent = "REPLAN"]_vars

\* a run that went through every phase: a forced re-plan behind it, it is
\* in an iteration of the new plan and has just announced its action
C27_Witness ==
    /\ pc = "executeAction"
    /\ trace.prevEvent = "STEP_START"
    /\ trace.lastEvent = "STEP_ACTION"
    /\ trace.nReplan = 1
    /\ trace.nStepStart = 5

\* C28: in an iteration the calls go page read (with its fallback lookup),
\* Navigator, action: each is made by the stretch that handles the settling
\* of the one before, so one at a time and at most once per iteration; the
\* Navigator is asked with the Page State that this iteration's read (or its
\* fallback) has just produced; the next page read belongs to the next
\* iteration.
C28_ReadDecideAct ==
    [][/\ (pc' = "getDOMState" /\ pc # pc') =>
            /\ pc \in {"createPlan", "executeAction"} \cup replanPcs
            /\ step' = IF pc = "createPlan" THEN 0 ELSE step + 1
            /\ domState' = "none"
            /\ action' = "none"
            /\ trace'.nStepStart = trace.nStepStart + 1
       /\ (pc' = "tabsQuery" /\ pc # pc') =>
            /\ pc = "getDOMState"
            /\ step' = step
            /\ domState' = "none"
       /\ (pc' = "getNextAction" /\ pc # pc') =>
            /\ pc \in {"getDOMState", "tabsQuery"}
            /\ step' = step
            /\ domState = "none"
            /\ pc = "getDOMState" => domState' = "page"
            /\ pc = "tabsQuery" => domState' \in DegradedStates
       /\ (pc' = "executeAction" /\ pc # pc') =>
            /\ pc = "getNextAction"
            /\ step' = step
            /\ domState' = domState
            /\ action' \in ActionTypes \ {"done", "fail"}
            /\ trace'.nActions = trace.nActions + 1
       /\ (pc' = pc /\ isRunning) =>
            /\ step' = step
            /\ domState' = domState
            /\ action' = action
            /\ trace'.nActions = trace.nActions
            /\ trace'.nStepStart = trace.nStepStart
       /\ isRunning' /\ pc' \notin {"executeAction", "replanStreak"} =>
            trace'.nActions <= step'
       /\ isRunning' /\ pc' \notin {"initialize", "createPlan"} =>
            trace'.nStepStart = step' + 1]_vars

\* in its third iteration the run performs an action chosen on the degraded
\* Page State of this iteration's failed read
C28_Witness ==
    /\ pc = "executeAction"
    /\ step = 2
    /\ domState = "unavailable"
    /\ trace.nActions = 3
    /\ trace.nStepStart = 3

\* C29: a run whose loop completes MAX_STEPS iterations (no `done`, no
\* fatal error, no cancellation seen at the top of an iteration) emits
\* TASK_FAILED for the exceeded maximum of steps and rejects with that same
\* error; and a run ends this way only then.
C29_MaxStepsExceeded ==
    [][/\ (isRunning /\ ~isRunning' /\ outcome' = "maxSteps") =>
            /\ step = MAX_STEPS - 1
            /\ trace.nStepStart = MAX_STEPS
            /\ trace'.lastEvent = "TASK_FAILED"
            /\ trace'.terminal = "maxSteps"
            /\ trace'.nTerminal = 1
            /\ trace.nTerminal = 0
       /\ ( /\ step = MAX_STEPS - 1
            /\ pc = "executeAction"
            /\ pc' \notin {pc, "replanStreak"} ) =>
            /\ ~isRunning'
            /\ outcome' = "maxSteps"
       /\ ( /\ step = MAX_STEPS - 1
            /\ pc \in replanPcs
            /\ pc' # pc
            /\ plannerReply'.kind = "plan" ) =>
            /\ ~isRunning'
            /\ outcome' = "maxSteps"]_vars

\* fifteen iterations, each with an action performed, and no re-plan
C29_Witness ==
    /\ Settled
    /\ outcome = "maxSteps"
    /\ trace.nActions = MAX_STEPS
    /\ trace.nReplan = 0
    /\ trace.lastEvent = "TASK_FAILED"
    /\ trace.prevEvent = "STEP_RESULT"

\* the models an initialize call is to try: the requested one, or the default
\* when none is given, then the fallback models in list order without it
candidates(c) ==
    LET first == IF calls[c].requested = NoModel
                 THEN DEFAULT_MODEL
                 ELSE calls[c].requested
    IN  <<first>> \o SelectSeq(FALLBACK_MODELS, LAMBDA m : m # first)

\* C22: model initialization tries the requested model (the default when
\* none is given) first and then each fallback model in list order, skipping
\* the requested one: the models tried so far are the first ones of that
\* list and the ones still to try are the rest of it. It succeeds with the
\* first candidate that loads, which is the last one tried and the engine's
\* current model, and it fails only when every candidate has been tried
\* and has failed, and then the engine is left not ready, with the error
\* recorded.
C22_CandidatesInOrder ==
    \A c \in CallIds :
        calls[c].pc \in {"load", "returned"} /\ calls[c].result # "skipped" =>
            LET cand == candidates(c)
                tried == calls[c].tried
            IN  /\ Len(tried) <= Len(cand)
                /\ tried = SubSeq(cand, 1, Len(tried))
                /\ calls[c].toTry = SubSeq(cand, Len(tried) + 1, Len(cand))
                /\ calls[c].pc = "load" =>
                       /\ Len(tried) < Len(cand)
                       /\ ~llmState.ready
                /\ calls[c].result = "loaded" =>
                       /\ Len(tried) >= 1
                       /\ c = nCalls =>
                              /\ llmState.ready
                              /\ llmState.currentModel = tried[Len(tried)]
                /\ calls[c].result = "failed" =>
                       /\ tried = cand
                       /\ c = nCalls =>
                              /\ ~llmState.ready
                              /\ ~llmState.isLoading
                              /\ llmState.error

\* a call for the first fallback model loaded the second one, the first one
\* having been tried once only, and a call for another model failed after
\* all three candidates
C22_Witness ==
    /\ \E c \in CallIds :
          /\ calls[c].result = "loaded"
          /\ calls[c].requested = FALLBACK_MODELS[1]
          /\ calls[c].tried = FALLBACK_MODELS
    /\ \E c \in CallIds :
          /\ calls[c].result = "failed"
          /\ calls[c].requested \notin {NoModel, FALLBACK_MODELS[1]}
          /\ Len(calls[c].tried) = Len(FALLBACK_MODELS) + 1

\* initialize is called for the model id that the call before it, which
\* succeeded, was called for
repeatedRequest(c) ==
    /\ nCalls = c - 1
    /\ nCalls' = c
    /\ calls[c - 1].result \in {"loaded", "skipped"}
    /\ calls'[c].requested = calls[c - 1].requested

\* the call returns at once: no load attempt, the engine state as it was
returnsImmediately(c) ==
    /\ calls'[c].pc = "returned"
    /\ calls'[c].result = "skipped"
    /\ calls'[c].tried = << >>
    /\ llmState' = llmState
    /\ initializationPromise' = initializationPromise

\* C30 as stated: after initialize(m) has succeeded, a later initialize(m)
\* with the same requested model id returns immediately, without any new
\* load attempt and without changing the engine state.
C30_RepeatedInitializeIdempotent ==
    [][\A c \in 2..MaxCalls : repeatedRequest(c) => returnsImmediately(c)]_vars

\* C30, amended: after initialize(m) has succeeded with m itself loaded (by
\* that call, or found loaded by it), a later initialize(m) returns
\* immediately without any new load attempt and without changing the engine
\* state; after it has succeeded with a fallback model loaded in place of m,
\* a later initialize(m) resets the engine state and starts a new load
\* sequence.
C30_IdempotentWhenRequestedLoaded ==
    [][\A c \in 2..MaxCalls :
         repeatedRequest(c) =>
             IF \/ calls[c - 1].result = "skipped"
                \/ calls[c - 1].tried = <<candidates(c - 1)[1]>>
             THEN returnsImmediately(c)
             ELSE /\ calls'[c].pc = "reset"
                  /\ calls'[c].result = "none"
                  /\ llmState' = InitialEngineState
                  /\ initializationPromise' = 0]_vars

\* a model was requested three times: a fallback model loaded in its place,
\* the second call loaded the model itself, and the third returned at once
C30_Witness ==
    /\ calls[1].result = "loaded"
    /\ Len(calls[1].tried) = 2
    /\ calls[2].requested = calls[1].requested
    /\ calls[2].result = "loaded"
    /\ Len(calls[2].tried) = 1
    /\ calls[3].requested = calls[1].requested
    /\ calls[3].result = "skipped"

\* C31: if an initialization of model m is in progress when initialize(m)
\* is called again, the second call waits for it instead of starting a
\* second load, so at most one load sequence is in flight for the same
\* model at any time.
C31_OneLoadInFlightPerModel ==
    \A c1, c2 \in CallIds :
        /\ c1 # c2
        /\ calls[c1].pc = "load"
        /\ calls[c2].pc = "load"
        => calls[c1].target # calls[c2].target

\* C32: a CANCEL_TASK message processed after the background has started
\* handling a START_TASK message, the lookup of the active tab before
\* executeTask is entered included, cancels that task: once the message has
\* been processed, the run of the task makes no executeAction call.
C32_CancelTaskCancelsTheTask ==
    [][\A k \in TaskIds :
         tasks[k].cancelled /\ tasks[k].call = "pending" =>
             trace'.nActions = trace.nActions]_vars

\* C33: while a run is active, currentTabId, which its page-state reads and
\* its actions use, is the tab selected when the run started: handling
\* another START_TASK message that is rejected as already running neither
\* changes nor clears it.
C33_TabIdKeptDuringRun ==
    \A k \in TaskIds :
        tasks[k].call = "pending" => currentTabId = "tab"

\* C34: after the user has cancelled in the popup (CANCEL_TASK posted, the
\* popup back to idle), the popup stays idle until the user submits again,
\* and a task then submitted is accepted and run by the Executor, not
\* rejected as already running.
C34_IdleAfterCancelThenAccepted ==
    /\ popup.afterCancel => popup.state = "idle"
    /\ \A k \in popup.resubmitted : tasks[k].call # "rejected"

\* the awaits of a loop iteration up to the Action Result: from the top of
\* the iteration the counters are not written before the result is handled
iterationPcs ==
    {"getDOMState", "tabsQuery", "getNextAction", "executeAction"}

\* C35: at the top of every loop iteration (and through the iteration up to
\* its Action Result), whenever re-plan budget remains the
\* consecutive-failure counter is at most 2: it is 3 or more only when the
\* re-plan budget is exhausted.
C35_StreakBelowThresholdWhileBudget ==
    pc \in iterationPcs /\ replans < MAX_REPLANS => consecutiveFailures <= 2

\* an iteration starts with three or more failures in a row and the
\* budget exhausted
C35_Witness ==
    /\ pc = "getDOMState"
    /\ replans = MAX_REPLANS
    /\ consecutiveFailures >= 3
    /\ trailFail >= 3

\* the six action kinds that are not terminal
nonTerminalKinds ==
    {"navigate", "click", "type", "extract", "scroll", "wait"}

\* the stretch emits a STEP_RESULT
emitsStepResult ==
    LET events == emittedBy(trace, trace')
    IN  \E i \in DOMAIN events : events[i] = "STEP_RESULT"

\* C36: the terminal action kinds `done` and `fail` are never passed to the
\* Page Bridge and never produce a STEP_RESULT or a History Entry: every
\* executeAction call is made on the Navigator's answer of that iteration
\* and for one of the six non-terminal kinds, and every STEP_RESULT and
\* every History Entry is for the action of such a call.
C36_TerminalActionsNotPerformed ==
    [][/\ trace'.nActions > trace.nActions =>
            /\ pc = "getNextAction"
            /\ pc' = "executeAction"
            /\ action' \in nonTerminalKinds
       /\ pc' = "executeAction" =>
            /\ action' \in nonTerminalKinds
            /\ pc # "executeAction" => trace'.nActions = trace.nActions + 1
       /\ emitsStepResult =>
            /\ pc = "executeAction"
            /\ action \in nonTerminalKinds
       /\ (context # Null /\ context' # Null
              /\ context'.history # context.history) =>
            /\ pc = "executeAction"
            /\ action \in nonTerminalKinds
            /\ context'.history = context.history + 1
            /\ emitsStepResult
      ]_vars

\* a `fail` action was answered after an action had been performed, and is
\* being re-planned: no call, result or entry was made for it
C36_Witness ==
    /\ pc = "replanFail"
    /\ action = "fail"
    /\ trace.lastEvent = "REPLAN"
    /\ trace.prevEvent = "STEP_ACTION"
    /\ trace.nActions = 1
    /\ context.history = 1

\* C37: a cancel() made while no run is active, or left from a run that was
\* cancelled, does not affect a later run: every run starts with the
\* cancellation flag cleared, during a run the flag is raised only by a
\* step that is a cancel() call (the run stays where it is), and a run ends
\* as cancelled only with the flag raised in that way.
C37_CancelDoesNotCarryOver ==
    [][/\ (~isRunning /\ isRunning') => ~shouldCancel'
       /\ (isRunning /\ ~shouldCancel /\ shouldCancel') =>
            /\ isRunning'
            /\ pc' = pc
            /\ trace' = trace
       /\ (isRunning /\ ~isRunning' /\ outcome' = "cancelled") =>
            shouldCancel
      ]_vars

\* the first task was cancelled and has ended with an ERROR, the flag was
\* left raised, and the run of the second task, which nobody cancelled, is
\* past the cancellation check of its first iteration
C37_Witness ==
    /\ tasks[1].pc = "returned"
    /\ tasks[1].cancelled
    /\ tasks[1].call = "rejected"
    /\ tasks[2].call = "pending"
    /\ ~tasks[2].cancelled
    /\ ~shouldCancel
    /\ pc = "getNextAction"

\* C38: INIT_PROGRESS events are emitted during model initialization only.
\* The progress callback is subscribed only while executeTask awaits
\* llmEngine.initialize, so that a later notification is not re-emitted; an
\* INIT_PROGRESS comes after the INIT_START of its run (other
\* INIT_PROGRESS apart) while the run is still initializing, and what
\* comes next after it is another INIT_PROGRESS, INIT_COMPLETE or the
\* TASK_FAILED of the failed initialization.
C38_ProgressOnlyDuringInit ==
    /\ progressSub => isRunning /\ pc = "initialize"
    /\ trace.lastEvent = "INIT_PROGRESS" =>
          /\ pc = "initialize"
          /\ trace.prevEvent \in {"INIT_START", "INIT_PROGRESS"}
    /\ trace.prevEvent = "INIT_PROGRESS" =>
          /\ trace.lastEvent \in {"INIT_PROGRESS", "INIT_COMPLETE",
                                  "TASK_FAILED"}
          /\ trace.lastEvent = "TASK_FAILED" => trace.terminal = "initFailed"

\* a second run is initializing and has re-emitted two progress
\* notifications, the subscription of the first run being gone
C38_Witness ==
    /\ runs = 2
    /\ pc = "initialize"
    /\ progressSub
    /\ trace.prevEvent = "INIT_PROGRESS"
    /\ trace.lastEvent = "INIT_PROGRESS"

\* C39: every handleStartTask that subscribes its forwarding listener
\* removes it when its task ends, on success, on failure and when the start
\* was rejected as already running: the listeners of the Executor are the
\* handleEvent closures of the handleStartTask calls that are awaiting
\* executeTask, and none once the tasks have ended.
C39_ForwardingListenersRemoved ==
    members(eventListeners) = {k \in TaskIds : tasks[k].pc = "executeTask"}

\* two tasks have ended, one resolved and one rejected as already running,
\* and no listener is left
C39_Witness ==
    /\ \A k \in TaskIds : tasks[k].pc = "returned"
    /\ \E k \in TaskIds : tasks[k].call = "resolved"
    /\ \E k \in TaskIds : tasks[k].call = "rejected"
    /\ nRejected = 1
    /\ eventListeners = << >>

====
